---- MODULE Spec2Model ----
(***************************************************************************)
(* Invoice workflow engine: the staged graph (graph/builder.py,            *)
(* graph/routing.py, graph/nodes/*.py), the services that start a run and  *)
(* process a human decision (services/workflow_service.py,                 *)
(* services/review_service.py), the cancel, retry and expire-stale         *)
(* handlers (api/workflows.py, api/human_review.py) and the rows of the    *)
(* workflows, checkpoints, human_reviews and audit_logs tables             *)
(* (db/models.py).                                                         *)
(*                                                                         *)
(* Handlers are coroutines on one event loop: they interleave at their     *)
(* await points.  start_workflow is split at its first commit,             *)
(* process_decision at its select, at its first commit and at the load of  *)
(* the thread.  A call of the graph (ainvoke, astream) and the commit that *)
(* follows it are one step: another handler sees the thread before or      *)
(* after it, not between two of its stages.  Each handler owns a session   *)
(* (expire_on_commit = False): it keeps the attribute values it loaded,    *)
(* and a commit writes only the attributes whose value differs from the    *)
(* loaded one.                                                             *)
(***************************************************************************)
EXTENDS Integers, Sequences, FiniteSets, Bags, TLC

\* ---------------------------------------------------------------- bounds
MaxWorkflows == 1
MaxCheckpoints == 2
MaxDecisions == 2
\* Cancel requests that succeed, per workflow
MaxCancels == 1

Workflows == 1..MaxWorkflows
\* checkpoint ids of the rows of the checkpoints table; the id that
\* checkpoint_node mints for workflow w (uuid based, never minted twice) is w
CheckpointIds == 1..MaxCheckpoints

\* inputs: invoice amounts and the amount of the purchase order that the
\* ERP backend returns (random.randint(5000, 20000) in the mock backend)
InvoiceAmounts == {10000}
PoAmounts == {10000, 20000}

\* what the post_to_erp ability returns: the mock backend's map with
\* "posted", or the map {"error": "down"} of a backend that is down
PostToErpResults == {[posted |-> TRUE], [error |-> "down"]}

\* the answers of the ATLAS backend to the abilities of one graph call
AtlasResponses == [fetch_po : PoAmounts, post_to_erp : PostToErpResults]

\* ------------------------------------------------------- program constants
match_threshold_pct == 90
two_way_tolerance_pct == 5

INTAKE == "INTAKE"
UNDERSTAND == "UNDERSTAND"
PREPARE == "PREPARE"
RETRIEVE == "RETRIEVE"
MATCH_TWO_WAY == "MATCH_TWO_WAY"
CHECKPOINT_HITL == "CHECKPOINT_HITL"
HITL_DECISION == "HITL_DECISION"
RECONCILE == "RECONCILE"
APPROVE == "APPROVE"
POSTING == "POSTING"
NOTIFY == "NOTIFY"
COMPLETE == "COMPLETE"
END == "END"

StageID == {INTAKE, UNDERSTAND, PREPARE, RETRIEVE, MATCH_TWO_WAY, CHECKPOINT_HITL,
            HITL_DECISION, RECONCILE, APPROVE, POSTING, NOTIFY, COMPLETE}

WorkflowStatus == {"PENDING", "RUNNING", "PAUSED", "COMPLETED", "FAILED", "MANUAL_HANDOFF"}

HumanDecisionType == {"ACCEPT", "REJECT"}

NONE == "NONE"

\* ------------------------------------------------------------ InvoiceState
\* final_payload of a state in which COMPLETE has not run
NoPayload == [ status |-> NONE, amount |-> 0, human_decision |-> NONE ]

\* The fields of the state that the stages read or that the handlers copy
\* to the workflow row.  NONE / FALSE / 0 stand for an absent key.
InvoiceState(amount) ==
    [ status          |-> "RUNNING",
      current_stage   |-> INTAKE,
      amount          |-> amount,
      validated       |-> FALSE,
      po_total        |-> 0,
      pos_count       |-> 0,
      score_num       |-> 0,
      score_den       |-> 1,
      match_result    |-> NONE,
      checkpoint_id   |-> 0,
      human_decision  |-> NONE,
      next_stage      |-> NONE,
      posted          |-> FALSE,
      notified        |-> FALSE,
      accounting_entries |-> <<>>,
      approval_status |-> NONE,
      approver_id     |-> NONE,
      final_payload   |-> NoPayload,
      audit_log       |-> <<>> ]

\* the runtime merges a stage's delta into the state: keys of the delta win
Merge(s, delta) ==
    [f \in DOMAIN s |-> IF f \in DOMAIN delta THEN delta[f] ELSE s[f]]

\* dict.get(key, default) on a delta
Get(delta, key, default) ==
    IF key \in DOMAIN delta THEN delta[key] ELSE default

Abs(x) == IF x < 0 THEN 0 - x ELSE x

Range(seq) == {seq[i] : i \in 1..Len(seq)}

\* calculate_match_score as an exact fraction <<numerator, denominator>>
calculate_match_score_unclamped(invoice_amount, po_amount, tolerance_pct) ==
    IF po_amount = 0
    THEN (IF invoice_amount # 0 THEN <<0, 1>> ELSE <<1, 1>>)
    ELSE LET diff == Abs(invoice_amount - po_amount) IN
         IF po_amount < 0
         THEN <<diff * 100 - po_amount * tolerance_pct * 10, (0 - po_amount) * tolerance_pct * 10>>
         ELSE IF diff * 100 <= tolerance_pct * po_amount
         THEN <<po_amount * tolerance_pct * 10 - diff * 100, po_amount * tolerance_pct * 10>>
         ELSE <<po_amount - diff, po_amount>>

\* (a negative po_amount makes diff_pct negative, which is within every
\* tolerance; the fraction is written with a positive denominator)
calculate_match_score(invoice_amount, po_amount, tolerance_pct) ==
    IF po_amount = 0
    THEN (IF invoice_amount # 0 THEN <<0, 1>> ELSE <<1, 1>>)
    ELSE LET diff == Abs(invoice_amount - po_amount) IN
         IF po_amount < 0
         THEN <<diff * 100 - po_amount * tolerance_pct * 10, (0 - po_amount) * tolerance_pct * 10>>
         ELSE IF diff * 100 <= tolerance_pct * po_amount
         THEN <<po_amount * tolerance_pct * 10 - diff * 100, po_amount * tolerance_pct * 10>>
         ELSE (IF diff < po_amount THEN <<po_amount - diff, po_amount>> ELSE <<0, 1>>)

\* sum(po.get("amount", 0) for po in purchase_orders)
RECURSIVE Sum(_)
Sum(amounts) == IF amounts = <<>> THEN 0 ELSE Head(amounts) + Sum(Tail(amounts))

\* ----------------------------------------------------------- CommonServer
\* _compute_match_score: the "score" and "matched" keys of its answer;
\* threshold in hundredths
_compute_match_score(params) ==
    LET invoice_amount  == params.invoice_amount
        purchase_orders == params.purchase_orders
        tolerance_pct   == params.tolerance_pct
        po_total        == Sum(purchase_orders)
        diff            == Abs(invoice_amount - po_total)
        score ==
            IF purchase_orders = <<>> THEN <<0, 1>>
            ELSE IF po_total = 0 THEN <<0, 1>>
            ELSE IF po_total < 0
            THEN <<diff * 100 - po_total * tolerance_pct * 10,
                   (0 - po_total) * tolerance_pct * 10>>
            ELSE IF diff * 100 <= tolerance_pct * po_total
            THEN <<po_total * tolerance_pct * 10 - diff * 100, po_total * tolerance_pct * 10>>
            ELSE (IF diff < po_total THEN <<po_total - diff, po_total>> ELSE <<0, 1>>)
    IN [ score   |-> score,
         matched |-> score[1] * 100 >= params.threshold * score[2] ]

auto_approve_threshold == 10000

\* _apply_approval_policy; risk_score in tenths
_apply_approval_policy(params) ==
    IF params.amount <= auto_approve_threshold /\ params.risk_score < 5
    THEN [ approved |-> TRUE,  method |-> "auto",      approver |-> "SYSTEM" ]
    ELSE [ approved |-> FALSE, method |-> "escalated", approver |-> "finance_manager" ]

\* ------------------------------------------------------------------ nodes
intake_node(s) ==
    [ validated |-> TRUE, current_stage |-> INTAKE ]

understand_node(s) ==
    [ current_stage |-> UNDERSTAND ]

prepare_node(s) ==
    [ current_stage |-> PREPARE ]

\* fetch_po returns one purchase order per detected PO number; the OCR text
\* of the mock backend always holds one PO reference
retrieve_node(s, po) ==
    [ po_total |-> po, pos_count |-> 1, current_stage |-> RETRIEVE ]

match_node_strict_threshold(s) ==
    LET score == IF s.pos_count > 0
                 THEN calculate_match_score(s.amount, s.po_total, two_way_tolerance_pct)
                 ELSE <<0, 1>>
    IN [ score_num    |-> score[1],
         score_den    |-> score[2],
         match_result |-> IF score[1] * 100 > match_threshold_pct * score[2]
                          THEN "MATCHED" ELSE "FAILED",
         current_stage |-> MATCH_TWO_WAY ]

match_node(s) ==
    LET score == IF s.pos_count > 0
                 THEN calculate_match_score(s.amount, s.po_total, two_way_tolerance_pct)
                 ELSE <<0, 1>>
    IN [ score_num    |-> score[1],
         score_den    |-> score[2],
         match_result |-> IF score[1] * 100 >= match_threshold_pct * score[2]
                          THEN "MATCHED" ELSE "FAILED",
         current_stage |-> MATCH_TWO_WAY ]

\* save_checkpoint is routed to the COMMON server, whose handler returns an
\* acknowledgement and stores nothing: the delta is the node's only effect
checkpoint_node_no_id(s, cid) ==
    [ status |-> "PAUSED", current_stage |-> CHECKPOINT_HITL ]

checkpoint_node(s, cid) ==
    [ checkpoint_id |-> cid, status |-> "PAUSED", current_stage |-> CHECKPOINT_HITL ]

hitl_decision_node(s) ==
    [ human_decision |-> s.human_decision,
      next_stage     |-> IF s.human_decision = "ACCEPT" THEN RECONCILE ELSE COMPLETE,
      status         |-> IF s.human_decision = "ACCEPT" THEN "RUNNING" ELSE "MANUAL_HANDOFF",
      current_stage  |-> HITL_DECISION ]

reconcile_node_debit_only(s) ==
    [ accounting_entries |-> << [ type |-> "DEBIT", amount |-> s.amount ] >>,
      current_stage |-> RECONCILE ]

reconcile_node(s) ==
    [ accounting_entries |-> << [ type |-> "DEBIT",  amount |-> s.amount ],
                                [ type |-> "CREDIT", amount |-> s.amount ] >>,
      current_stage |-> RECONCILE ]

AUTO_APPROVE_THRESHOLD == 10000

\* approval_result is bound and not read again; risk_score (in tenths) goes
\* to the ability only
approve_node(s) ==
    LET invoice_amount  == s.amount
        approval_result == _apply_approval_policy(
                               [ amount     |-> invoice_amount,
                                 risk_score |-> Get(s, "risk_score", 0) ])
    IN [ approval_status |-> IF invoice_amount <= AUTO_APPROVE_THRESHOLD
                             THEN "AUTO_APPROVED" ELSE "ESCALATED",
         approver_id     |-> IF invoice_amount <= AUTO_APPROVE_THRESHOLD
                             THEN "SYSTEM" ELSE "finance_manager",
         current_stage   |-> APPROVE ]

\* post_result is bound and not read again: the delta is the same for
\* every answer of post_to_erp
posting_node(s, post_result) ==
    [ posted |-> TRUE, current_stage |-> POSTING ]

notify_node(s) ==
    [ notified |-> TRUE, current_stage |-> NOTIFY ]

complete_node_always_completed(s) ==
    [ final_payload |-> [ status |-> "COMPLETED", amount |-> s.amount,
                          human_decision |-> s.human_decision ],
      audit_log     |-> <<INTAKE, UNDERSTAND, PREPARE, RETRIEVE, MATCH_TWO_WAY>>
                        \o (IF s.checkpoint_id # 0
                            THEN <<CHECKPOINT_HITL, HITL_DECISION>> ELSE <<>>)
                        \o <<RECONCILE, APPROVE, POSTING, NOTIFY>>
                        \o <<COMPLETE>>,
      status        |-> "COMPLETED",
      current_stage |-> COMPLETE ]

complete_node(s) ==
    LET final_status == IF s.status = "MANUAL_HANDOFF" THEN "MANUAL_HANDOFF" ELSE "COMPLETED"
    IN [ final_payload |-> [ status |-> final_status, amount |-> s.amount,
                             human_decision |-> s.human_decision ],
         audit_log     |-> <<INTAKE, UNDERSTAND, PREPARE, RETRIEVE, MATCH_TWO_WAY>>
                           \o (IF s.checkpoint_id # 0
                               THEN <<CHECKPOINT_HITL, HITL_DECISION>> ELSE <<>>)
                           \o (IF final_status # "MANUAL_HANDOFF"
                               THEN <<RECONCILE, APPROVE, POSTING, NOTIFY>> ELSE <<>>)
                           \o <<COMPLETE>>,
         status        |-> final_status,
         current_stage |-> COMPLETE ]

\* the node registered for a stage (build_invoice_graph, add_node)
Node(stage, s, atlas, cid) ==
    CASE stage = INTAKE          -> intake_node(s)
      [] stage = UNDERSTAND      -> understand_node(s)
      [] stage = PREPARE         -> prepare_node(s)
      [] stage = RETRIEVE        -> retrieve_node(s, atlas.fetch_po)
      [] stage = MATCH_TWO_WAY   -> match_node(s)
      [] stage = CHECKPOINT_HITL -> checkpoint_node(s, cid)
      [] stage = HITL_DECISION   -> hitl_decision_node(s)
      [] stage = RECONCILE       -> reconcile_node(s)
      [] stage = APPROVE         -> approve_node(s)
      [] stage = POSTING         -> posting_node(s, atlas.post_to_erp)
      [] stage = NOTIFY          -> notify_node(s)
      [] stage = COMPLETE        -> complete_node(s)

\* ---------------------------------------------------------------- routing
route_after_match_swapped(s) ==
    IF s.match_result = "FAILED" THEN "reconcile" ELSE "checkpoint"

route_after_match(s) ==
    IF s.match_result = "FAILED" THEN "checkpoint" ELSE "reconcile"

route_after_hitl_reject_only(s) ==
    IF s.human_decision = "REJECT" THEN "complete" ELSE "reconcile"

route_after_hitl(s) ==
    IF s.human_decision = "ACCEPT" THEN "reconcile" ELSE "complete"

\* the edges of build_invoice_graph: the node that follows `stage`
entry_point == INTAKE

next_node_skip_checkpoint(stage, s) ==
    CASE stage = INTAKE          -> UNDERSTAND
      [] stage = UNDERSTAND      -> PREPARE
      [] stage = PREPARE         -> RETRIEVE
      [] stage = RETRIEVE        -> MATCH_TWO_WAY
      [] stage = MATCH_TWO_WAY   -> IF route_after_match(s) = "checkpoint"
                                    THEN HITL_DECISION ELSE RECONCILE
      [] stage = CHECKPOINT_HITL -> HITL_DECISION
      [] stage = HITL_DECISION   -> IF route_after_hitl(s) = "reconcile"
                                    THEN RECONCILE ELSE COMPLETE
      [] stage = RECONCILE       -> APPROVE
      [] stage = APPROVE         -> POSTING
      [] stage = POSTING         -> NOTIFY
      [] stage = NOTIFY          -> COMPLETE
      [] stage = COMPLETE        -> END

next_node(stage, s) ==
    CASE stage = INTAKE          -> UNDERSTAND
      [] stage = UNDERSTAND      -> PREPARE
      [] stage = PREPARE         -> RETRIEVE
      [] stage = RETRIEVE        -> MATCH_TWO_WAY
      [] stage = MATCH_TWO_WAY   -> IF route_after_match(s) = "checkpoint"
                                    THEN CHECKPOINT_HITL ELSE RECONCILE
      [] stage = CHECKPOINT_HITL -> HITL_DECISION
      [] stage = HITL_DECISION   -> IF route_after_hitl(s) = "reconcile"
                                    THEN RECONCILE ELSE COMPLETE
      [] stage = RECONCILE       -> APPROVE
      [] stage = APPROVE         -> POSTING
      [] stage = POSTING         -> NOTIFY
      [] stage = NOTIFY          -> COMPLETE
      [] stage = COMPLETE        -> END

\* graph.compile(..., interrupt_before=[HITL_DECISION])
interrupt_before_nothing == {}

interrupt_before == {HITL_DECISION}


\* ------------------------------------------------------------------ state
VARIABLES
    wf,         \* workflows table: the row of each workflow (status NONE: no row)
    thr,        \* MemorySaver: the latest graph checkpoint of each thread
    run,        \* the run that start_workflow drives, per workflow
    cps,        \* checkpoints table joined with its human_reviews row
    calls,      \* the process_decision calls in progress (a bag of call frames)
    ncalls,     \* how many process_decision calls got past the select
    resp,       \* what the step just taken returned to the caller of a handler
    audit,      \* audit_logs table: per workflow, the number of rows of each event type
    wasPaused,  \* history: the row was seen in status PAUSED
    handoff,    \* history: a REJECT of the paused workflow was committed
    settings,   \* Settings: app_env and anthropic_api_key of the process
    registry,   \* ToolRegistry: _tools, _registration_order, _initialized
    selection_log,    \* BigtoolPicker._selection_log
    execution_count,  \* BaseTool._execution_count of each tool instance
    call_log,   \* MCPRouter._call_log
    ret,        \* what the registry, picker, tool or router operation just made returned
    nops        \* how many operations each of these components has been asked for

vars == <<wf, thr, run, cps, calls, ncalls, resp, audit, wasPaused, handoff,
          settings, registry, selection_log, execution_count, call_log, ret, nops>>

\* state_data of a freshly created row: {"raw_payload": ...}
RawPayloadOnly(amount) ==
    [InvoiceState(amount) EXCEPT !.status = NONE, !.current_stage = NONE]

NoRow ==
    [ status |-> NONE, current_stage |-> NONE, state_data |-> RawPayloadOnly(0),
      error_message |-> NONE, invoice_id |-> 0, retry_count |-> 0,
      completed_at |-> NONE ]

\* the value of a datetime column once datetime.utcnow() was stored in it
utcnow == "utcnow"

NoAudit == [ workflow_started |-> 0, human_decision |-> 0, workflow_cancelled |-> 0 ]

NoThread == [ values |-> RawPayloadOnly(0), next |-> NONE ]

NoRun ==
    [ pc |-> "none", cur |-> NONE, s |-> RawPayloadOnly(0), trace |-> <<>>,
      post_error |-> NONE, writes |-> <<>> ]

NoCheckpoint ==
    [ exists |-> FALSE, workflow |-> 0, is_resolved |-> FALSE, resolution |-> NONE,
      review |-> NONE ]

NoCall ==
    [ pc |-> "idle", checkpoint_id |-> 0, decision |-> NONE, workflow |-> 0,
      seen_status |-> NONE, loaded_status |-> NONE, loaded_stage |-> NONE,
      cur |-> NONE, s |-> RawPayloadOnly(0), trace |-> <<>>, post_error |-> NONE,
      writes |-> <<>> ]

\* `older`, `hours` and `count`: the reviews created before the cutoff of an
\* expire-stale request, its hours_threshold and the expired_count it returns
NoResponse ==
    [ result |-> NONE, call |-> NoCall, older |-> {}, hours |-> 0, count |-> 0 ]

\* the rows, threads and calls of a process that has served no request
InitStoreFor(W) ==
    /\ wf = [w \in W |-> NoRow]
    /\ thr = [w \in W |-> NoThread]
    /\ run = [w \in W |-> NoRun]
    /\ cps = [c \in CheckpointIds |-> NoCheckpoint]
    /\ calls = EmptyBag
    /\ ncalls = 0
    /\ resp = NoResponse
    /\ audit = [w \in W |-> NoAudit]
    /\ wasPaused = [w \in W |-> FALSE]
    /\ handoff = [w \in W |-> FALSE]

InitStore == InitStoreFor(Workflows)

\* The picker's selection log and the router's call log are per-process
\* lists that the stages append to and that no stage, handler or service
\* reads; a run of the graph is specified without them, and the registry,
\* the picker, the tools and the router are specified on their own
\* (SpecBigtool, SpecTool, SpecRouter below).
ComponentsAside ==
    UNCHANGED <<settings, registry, selection_log, execution_count, call_log, ret, nops>>

\* every action records the statuses it leaves in the table
Observe ==
    /\ wasPaused' = [w \in DOMAIN wf |-> wasPaused[w] \/ wf'[w].status = "PAUSED"]
    /\ ComponentsAside

\* a step that returns nothing to a caller
NoReturn == resp' = NoResponse /\ UNCHANGED <<ncalls, handoff>>

\* db.add(AuditLog(event_type = event)) for workflow w, committed with the step
Log(w, event) == audit' = [audit EXCEPT ![w][event] = @ + 1]

\* the call frame `call` becomes `frame`, or ends
Continue(call, frame) == calls' = (calls (-) SetToBag({call})) (+) SetToBag({frame})

Return(call, result) ==
    /\ calls' = calls (-) SetToBag({call})
    /\ resp' = [NoResponse EXCEPT !.result = result, !.call = call]

\* a commit writes an attribute only when the handler changed it away from
\* the value its session loaded; otherwise the stored value stays
Flush(stored, loaded, assigned) ==
    IF assigned = loaded THEN stored ELSE assigned

\* --------------------------------------------------- WorkflowService (start)
\* config = {"configurable": {"thread_id": workflow.workflow_id}}: the
\* thread of the MemorySaver that a graph call of the workflow reads and
\* writes.  The saver is one object for the process, shared by all
\* workflows, and keeps its threads apart by this id alone.
thread_id_shared(workflow_id) == 1

thread_id(workflow_id) == workflow_id

\* start_workflow up to the first stage: the row is committed as RUNNING at
\* INTAKE, then _execute_workflow hands the initial state to the graph
start_workflow(w, amount) ==
    /\ wf[w].status = NONE
    /\ \A v \in DOMAIN wf : v < w => wf[v].status # NONE
    /\ wf' = [wf EXCEPT ![w] = [ status |-> "RUNNING", current_stage |-> INTAKE,
                                 state_data |-> RawPayloadOnly(amount),
                                 error_message |-> NONE, invoice_id |-> w,
                                 retry_count |-> 0, completed_at |-> NONE ]]
    /\ Log(w, "workflow_started")
    /\ thr' = [thr EXCEPT ![thread_id(w)] = [ values |-> InvoiceState(amount), next |-> entry_point ]]
    /\ run' = [run EXCEPT ![w] = [NoRun EXCEPT !.pc = "running", !.cur = entry_point,
                                               !.s = InvoiceState(amount)]]
    /\ UNCHANGED <<cps, calls>>
    /\ NoReturn
    /\ Observe

\* where the loop stands after a step whose successor is `nxt`
AfterStep(nxt) ==
    IF nxt = END \/ nxt \in interrupt_before THEN "halted" ELSE "running"

\* the graph's loop from stage `cur` on state `s`: run the node, merge its
\* delta, follow the edge, until END or an interrupt node comes next, or
\* until the stage to run is the one that raises (NONE: no stage raises).
\* `last` is the delta of the stage run last.
RECURSIVE Pregel(_, _, _, _, _, _, _)
Pregel(s, cur, atlas, cid, trace, last, raising) ==
    IF cur = raising
    THEN [ s |-> s, next |-> cur, trace |-> trace, last |-> last, halted |-> FALSE ]
    ELSE LET delta == Node(cur, s, atlas, cid)
             s2    == Merge(s, delta)
             nxt   == next_node(cur, s2)
         IN IF AfterStep(nxt) = "halted"
            THEN [ s |-> s2, next |-> nxt, trace |-> Append(trace, cur),
                   last |-> <<Get(delta, "status", "COMPLETED"),
                              Get(delta, "current_stage", COMPLETE)>>,
                   halted |-> TRUE ]
            ELSE Pregel(s2, nxt, atlas, cid, Append(trace, cur),
                        <<Get(delta, "status", "COMPLETED"),
                          Get(delta, "current_stage", COMPLETE)>>, raising)

\* the "error" key of the map that post_to_erp returned to the POSTING stage
\* of a graph call, NONE when the map has none or POSTING did not run
post_error(trace, atlas) ==
    IF POSTING \in Range(trace) THEN Get(atlas.post_to_erp, "error", NONE) ELSE NONE

\* the keys of the deltas that the stages of `trace` returned, in order, to
\* a graph call that started on state `s`
RECURSIVE writes(_, _, _, _)
writes(s, atlas, cid, trace) ==
    IF trace = <<>>
    THEN <<>>
    ELSE LET delta == Node(Head(trace), s, atlas, cid)
         IN <<[ stage |-> Head(trace), keys |-> DOMAIN delta ]>>
                \o writes(Merge(s, delta), atlas, cid, Tail(trace))

\* the stages taken to raise: the two that call the ERP system and the
\* one that reports the human decision to it
RaisingStages == {RETRIEVE, HITL_DECISION, POSTING}

\* _execute_workflow: graph.ainvoke(initial_state, config) runs to END or to
\* the interrupt, then the final state is copied to the row and committed
\* (no await lies between the return of ainvoke and the commit)
execute_workflow(w, atlas) ==
    /\ run[w].pc = "running"
    /\ LET r == Pregel(run[w].s, run[w].cur, atlas, w, <<>>, <<NONE, NONE>>, NONE)
       IN /\ run' = [run EXCEPT ![w] = [ pc |-> "returned", cur |-> r.next, s |-> r.s,
                                         trace |-> r.trace,
                                         post_error |-> post_error(r.trace, atlas),
                                         writes |-> writes(run[w].s, atlas, w, r.trace) ]]
          /\ thr' = [thr EXCEPT ![thread_id(w)] = [ values |-> r.s, next |-> r.next ]]
          /\ wf' = [wf EXCEPT ![w] =
                      [ status        |-> Flush(wf[w].status, "RUNNING", r.s.status),
                        current_stage |-> Flush(wf[w].current_stage, INTAKE, r.s.current_stage),
                        state_data    |-> r.s,
                        error_message |-> wf[w].error_message,
                        invoice_id    |-> wf[w].invoice_id,
                        retry_count   |-> wf[w].retry_count,
                        completed_at  |-> IF r.s.status = "COMPLETED"
                                          THEN utcnow ELSE wf[w].completed_at ]]
    /\ UNCHANGED <<cps, calls, audit>>
    /\ NoReturn
    /\ Observe

\* stage `bad` raises: ainvoke propagates and start_workflow marks the row
\* FAILED
execute_workflow_error(w, atlas, bad) ==
    /\ run[w].pc = "running"
    /\ LET r == Pregel(run[w].s, run[w].cur, atlas, w, <<>>, <<NONE, NONE>>, bad)
       IN /\ ~r.halted
          /\ run' = [run EXCEPT ![w] = [ pc |-> "raised", cur |-> r.next, s |-> r.s,
                                         trace |-> r.trace,
                                         post_error |-> post_error(r.trace, atlas),
                                         writes |-> writes(run[w].s, atlas, w, r.trace) ]]
          /\ thr' = [thr EXCEPT ![thread_id(w)] = [ values |-> r.s, next |-> r.next ]]
    /\ wf' = [wf EXCEPT ![w].status = "FAILED", ![w].error_message = "stage_error"]
    /\ UNCHANGED <<cps, calls, audit>>
    /\ NoReturn
    /\ Observe

\* ---------------------------------------------------- rows of the store
\* A row of the checkpoints table together with its human_reviews row
\* (status PENDING) enters the store for a paused workflow.  The table
\* declares checkpoint_id unique and nothing about (workflow_id,
\* is_resolved); no handler of the application adds these rows.  The row
\* carries the id the workflow's state names, or an id no stage minted.
insert_checkpoint(c, w) ==
    /\ ~cps[c].exists
    /\ c = w \/ c \notin DOMAIN wf
    /\ wf[w].status = "PAUSED"
    /\ cps' = [cps EXCEPT ![c] = [ exists |-> TRUE, workflow |-> w, is_resolved |-> FALSE,
                                   resolution |-> NONE,
                                   review |-> "PENDING" ]]
    /\ UNCHANGED <<wf, thr, run, calls, audit>>
    /\ NoReturn
    /\ Observe

\* ------------------------------------------------ ReviewService (decision)
\* what process_decision decides for the row: <<next_stage, workflow_status>>
decision_outcome(decision) ==
    IF decision = "ACCEPT" THEN <<RECONCILE, "RUNNING">>
    ELSE <<COMPLETE, "MANUAL_HANDOFF">>

\* what process_decision raises after its select, NONE when it goes on: a
\* ValueError whose message is "Checkpoint not found: ..." or "Checkpoint
\* already resolved: ...", which submit_decision answers with status 400 and
\* the message as detail
process_decision_refusal_resolved_allowed(c) ==
    IF ~cps[c].exists THEN "NotFound" ELSE NONE

process_decision_refusal(c) ==
    IF ~cps[c].exists THEN "NotFound"
    ELSE IF cps[c].is_resolved THEN "AlreadyResolved"
    ELSE NONE

\* process_decision, the select: a refused call raises and its session is
\* rolled back; otherwise the session holds the checkpoint, its review and
\* its workflow as they are now
process_decision_select(c, decision) ==
    /\ IF process_decision_refusal(c) # NONE
       THEN /\ resp' = [NoResponse EXCEPT
                          !.result = process_decision_refusal(c),
                          !.call = [NoCall EXCEPT !.checkpoint_id = c]]
            /\ UNCHANGED <<calls, ncalls>>
       ELSE /\ resp' = NoResponse
            /\ ncalls < MaxDecisions
            /\ ncalls' = ncalls + 1
            /\ calls' = calls (+) SetToBag({
                  [NoCall EXCEPT !.pc = "selected", !.checkpoint_id = c,
                                 !.decision = decision, !.workflow = cps[c].workflow,
                                 !.seen_status = wf[cps[c].workflow].status,
                                 !.loaded_status = wf[cps[c].workflow].status,
                                 !.loaded_stage = wf[cps[c].workflow].current_stage] })
    /\ UNCHANGED <<wf, thr, run, cps, audit, handoff>>
    /\ Observe

\* process_decision, the first commit: the checkpoint is resolved, the
\* review REVIEWED, the row gets the decided status and stage and an audit
\* row is added.  The keys put into state_data are an in-place change of
\* the JSON value, which the commit does not write.  ACCEPT goes on to
\* resume, REJECT to a second commit.
process_decision_commit(call) ==
    /\ call.pc = "selected"
    /\ LET c   == call.checkpoint_id
           w   == call.workflow
           out == decision_outcome(call.decision)
       IN /\ cps' = [cps EXCEPT ![c].is_resolved = TRUE,
                                ![c].resolution = call.decision,
                                ![c].review = "REVIEWED"]
          /\ wf' = [wf EXCEPT ![w].status = Flush(wf[w].status, call.loaded_status, out[2]),
                              ![w].current_stage =
                                  Flush(wf[w].current_stage, call.loaded_stage, out[1])]
          /\ IF call.decision = "ACCEPT"
             THEN /\ Continue(call, [call EXCEPT !.loaded_status = out[2],
                                                 !.loaded_stage = out[1],
                                                 !.pc = "resuming"])
                  /\ UNCHANGED handoff
             ELSE /\ Continue(call, [call EXCEPT !.loaded_status = out[2],
                                                 !.loaded_stage = out[1],
                                                 !.pc = "rejected"])
                  /\ handoff' = [handoff EXCEPT ![w] = @ \/ call.seen_status = "PAUSED"]
          /\ Log(w, "human_decision")
    /\ resp' = NoResponse
    /\ UNCHANGED <<thr, run, ncalls>>
    /\ Observe

\* process_decision after a REJECT: completed_at is stamped and committed
process_decision_reject(call) ==
    /\ call.pc = "rejected"
    /\ wf' = [wf EXCEPT ![call.workflow].completed_at = utcnow]
    /\ Return(call, "OK")
    /\ UNCHANGED <<thr, run, cps, ncalls, audit, handoff>>
    /\ Observe

\* _resume_workflow: aupdate_state puts the decision into the thread's
\* checkpoint and astream(None) loads it, to continue at its next node with
\* the interrupt lifted for that node
resume_workflow_load(call) ==
    /\ call.pc = "resuming"
    /\ LET w  == call.workflow
           s2 == [thr[thread_id(w)].values EXCEPT !.human_decision = call.decision]
       IN /\ thr' = [thr EXCEPT ![thread_id(w)].values = s2]
          /\ Continue(call, [call EXCEPT !.pc = "streaming", !.cur = thr[thread_id(w)].next, !.s = s2])
    /\ UNCHANGED <<wf, run, cps, audit>>
    /\ NoReturn
    /\ Observe

\* _resume_workflow: graph.astream(None, config) from the loaded checkpoint
\* to END, then the last streamed delta gives the row its status and stage
\* and the session commits.  A thread that is at END streams nothing, and
\* nothing is assigned to the row.
resume_workflow_stream(call, atlas) ==
    /\ call.pc = "streaming"
    /\ LET w == call.workflow IN
       IF call.cur = END
       THEN /\ Return(call, "OK")
            /\ UNCHANGED <<wf, thr>>
       ELSE LET r == Pregel(call.s, call.cur, atlas, w, <<>>, <<NONE, NONE>>, NONE) IN
            /\ thr' = [thr EXCEPT ![thread_id(w)] = [ values |-> r.s, next |-> r.next ]]
            /\ wf' = [wf EXCEPT
                        ![w].status = Flush(wf[w].status, call.loaded_status, r.last[1]),
                        ![w].current_stage =
                            Flush(wf[w].current_stage, call.loaded_stage, r.last[2]),
                        ![w].completed_at =
                            IF r.last[1] = "COMPLETED" THEN utcnow ELSE @]
            /\ calls' = calls (-) SetToBag({call})
            /\ resp' = [NoResponse EXCEPT
                          !.result = "OK",
                          !.call = [call EXCEPT !.cur = r.next, !.s = r.s,
                                                !.trace = r.trace,
                                                !.post_error =
                                                    post_error(r.trace, atlas),
                                                !.writes =
                                                    writes(call.s, atlas, w, r.trace)]]
    /\ UNCHANGED <<run, cps, ncalls, audit, handoff>>
    /\ Observe

\* stage `bad` raises while resuming: the row is marked FAILED and the
\* error is raised to the caller
resume_workflow_error(call, atlas, bad) ==
    /\ call.pc = "streaming"
    /\ call.cur # END
    /\ LET w == call.workflow
           r == Pregel(call.s, call.cur, atlas, w, <<>>, <<NONE, NONE>>, bad)
       IN /\ ~r.halted
          /\ thr' = [thr EXCEPT ![thread_id(w)] = [ values |-> r.s, next |-> r.next ]]
          /\ wf' = [wf EXCEPT ![w].status =
                                  Flush(wf[w].status, call.loaded_status, "FAILED"),
                              ![w].error_message = "stage_error"]
          /\ calls' = calls (-) SetToBag({call})
          /\ resp' = [NoResponse EXCEPT
                        !.result = "ResumeError",
                        !.call = [call EXCEPT !.cur = r.next, !.s = r.s,
                                              !.trace = r.trace,
                                              !.post_error =
                                                  post_error(r.trace, atlas),
                                              !.writes =
                                                  writes(call.s, atlas, w, r.trace)]]
    /\ UNCHANGED <<run, cps, ncalls, audit, handoff>>
    /\ Observe

\* --------------------------------------------------------------- handlers
\* what cancel_workflow raises after its select, NONE when it goes on: 404
\* for no row, 400 unless the status is RUNNING, PAUSED or PENDING
cancel_refusal_terminal_allowed(w) ==
    IF wf[w].status = NONE THEN "WorkflowNotFound" ELSE NONE

cancel_refusal(w) ==
    IF wf[w].status = NONE THEN "WorkflowNotFound"
    ELSE IF wf[w].status \notin {"RUNNING", "PAUSED", "PENDING"} THEN "CannotCancel"
    ELSE NONE

\* cancel_workflow: the row becomes FAILED, "Cancelled by user", with
\* completed_at stamped, and a workflow_cancelled audit row is added; the
\* answer carries the previous status
cancel_workflow(w) ==
    /\ IF cancel_refusal(w) # NONE
       THEN /\ resp' = [NoResponse EXCEPT !.result = cancel_refusal(w),
                                          !.call = [NoCall EXCEPT !.workflow = w,
                                                      !.seen_status = wf[w].status]]
            /\ UNCHANGED <<wf, audit>>
       ELSE /\ audit[w].workflow_cancelled < MaxCancels
            /\ wf' = [wf EXCEPT ![w].status = "FAILED",
                                ![w].error_message = "Cancelled by user",
                                ![w].completed_at = utcnow]
            /\ Log(w, "workflow_cancelled")
            /\ resp' = [NoResponse EXCEPT !.result = "Cancelled",
                                          !.call = [NoCall EXCEPT !.workflow = w,
                                                      !.seen_status = wf[w].status]]
    /\ UNCHANGED <<thr, run, cps, calls, ncalls, handoff>>
    /\ Observe

\* the hours of an expire-stale request: the default of the query parameter
default_expire_hours == 72
ExpireHours == {default_expire_hours}

\* f"Review expired after {hours} hours"
review_expired_message(hours) ==
    "Review expired after " \o ToString(hours) \o " hours"

\* the rows the query of expire_stale_reviews selects: status PENDING and
\* created before the cutoff (`older`: the reviews created before it)
stale_reviews_any_status(older) == {c \in older : cps[c].exists}

stale_reviews(older) == {c \in older : cps[c].exists /\ cps[c].review = "PENDING"}

\* expire_stale_reviews: every selected review becomes EXPIRED and its
\* workflow FAILED; the answer carries the number of reviews expired
expire_stale_reviews(older, hours) ==
    /\ \A c \in older : cps[c].exists
    /\ LET stale == stale_reviews(older)
       IN /\ cps' = [c \in CheckpointIds |->
                       IF c \in stale THEN [cps[c] EXCEPT !.review = "EXPIRED"] ELSE cps[c]]
          /\ wf' = [w \in DOMAIN wf |->
                       IF \E c \in stale : cps[c].workflow = w
                       THEN [wf[w] EXCEPT !.status = "FAILED",
                                          !.error_message = review_expired_message(hours)]
                       ELSE wf[w]]
          /\ resp' = [NoResponse EXCEPT !.result = "Expired", !.older = older,
                                        !.hours = hours,
                                        !.count = Cardinality(stale)]
    /\ UNCHANGED <<thr, run, calls, ncalls, audit, handoff>>
    /\ Observe

\* the invoices table holds a row with this invoice_id: start_workflow adds
\* the Invoice row together with the workflow row, and nothing removes it
invoice_stored(inv) ==
    \E v \in DOMAIN wf : wf[v].status # NONE /\ wf[v].invoice_id = inv

\* what retry_workflow raises after its select, NONE when it goes on: 404
\* for no row, 400 unless the status is FAILED
retry_refusal(w) ==
    IF wf[w].status = NONE THEN "WorkflowNotFound"
    ELSE IF wf[w].status # "FAILED" THEN "NotRetryable"
    ELSE NONE

\* retry_workflow: retry_count of the original is incremented and
\* start_workflow is called with the original payload, for the new workflow
\* w2.  Its first flush inserts an Invoice row with the original invoice_id:
\* on a stored invoice_id (unique) the flush raises IntegrityError, the
\* handler raises and the session is rolled back.
retry_workflow(w, w2) ==
    /\ IF retry_refusal(w) # NONE
       THEN /\ resp' = [NoResponse EXCEPT !.result = retry_refusal(w),
                                          !.call = [NoCall EXCEPT !.workflow = w,
                                                      !.seen_status = wf[w].status]]
            /\ UNCHANGED <<wf, thr, run, audit>>
       ELSE IF invoice_stored(wf[w].invoice_id)
       THEN /\ resp' = [NoResponse EXCEPT !.result = "IntegrityError",
                                          !.call = [NoCall EXCEPT !.workflow = w,
                                                      !.seen_status = wf[w].status]]
            /\ UNCHANGED <<wf, thr, run, audit>>
       ELSE /\ w2 # w
            /\ wf[w2].status = NONE
            /\ wf' = [wf EXCEPT
                        ![w].retry_count = @ + 1,
                        ![w2] = [ status |-> "RUNNING", current_stage |-> INTAKE,
                                  state_data |-> RawPayloadOnly(wf[w].state_data.amount),
                                  error_message |-> NONE,
                                  invoice_id |-> wf[w].invoice_id,
                                  retry_count |-> 0, completed_at |-> NONE ]]
            /\ Log(w2, "workflow_started")
            /\ thr' = [thr EXCEPT ![w2] = [ values |-> InvoiceState(wf[w].state_data.amount),
                                            next |-> entry_point ]]
            /\ run' = [run EXCEPT ![w2] =
                         [NoRun EXCEPT !.pc = "running", !.cur = entry_point,
                                       !.s = InvoiceState(wf[w].state_data.amount)]]
            /\ resp' = [NoResponse EXCEPT !.result = "Retried",
                                          !.call = [NoCall EXCEPT !.workflow = w,
                                                      !.seen_status = wf[w].status]]
    /\ UNCHANGED <<cps, calls, ncalls, handoff>>
    /\ Observe

\* =============================================================== registry
\* bounds of the component specifications: how many operations the registry,
\* the picker, the tools and the router are asked for
MaxRegistryOps == 2
MaxSelections == 1
MaxExecutions == 2
MaxCalls == 2

NoOps == [ registry |-> 0, select |-> 0, execute |-> 0, call |-> 0 ]

\* one more operation of `component` was asked for
Count(component) == nops' = [nops EXCEPT ![component] = @ + 1]

\* the registry, the picker, the tools and the router touch no row, thread
\* or call of the workflow engine
StoreAside ==
    UNCHANGED <<wf, thr, run, cps, calls, ncalls, resp, audit, wasPaused, handoff>>

\* what an operation that returns None leaves to its caller
NoValue == [ op |-> NONE ]

BigtoolCapability == {"ocr", "enrichment", "erp_connector", "db", "email", "storage"}

\* the capabilities a tool or a selection may name: those of the
\* configuration and one that the picker has no rules for
Capabilities == BigtoolCapability \cup {"unknown_capability"}

DEFAULT_TOOL_SELECTIONS ==
    [ ocr |-> "google_vision", enrichment |-> "clearbit", erp_connector |-> "mock_erp",
      db |-> "sqlite", email |-> "sendgrid", storage |-> "local_fs" ]

\* a tool object; `instance` tells two objects of the same class apart:
\* 0 for the one initialize_default_tools constructs, 1 for one that the
\* caller of register constructed
BaseTool(capability, name, instance) ==
    [ capability |-> capability, name |-> name, instance |-> instance ]

\* the name that SMTPEmail gives itself
SMTPEmail == "smtp"

\* <<capability, name>> of the tools that initialize_default_tools
\* registers, in its order
DefaultTools ==
    << <<"ocr", "google_vision">>, <<"ocr", "tesseract">>, <<"ocr", "aws_textract">>,
       <<"enrichment", "clearbit">>, <<"enrichment", "people_data_labs">>,
       <<"enrichment", "vendor_db">>,
       <<"erp_connector", "sap_sandbox">>, <<"erp_connector", "netsuite">>,
       <<"erp_connector", "mock_erp">>,
       <<"storage", "s3">>, <<"storage", "gcs">>, <<"storage", "local_fs">>,
       <<"email", "sendgrid">>, <<"email", "ses">>, <<"email", SMTPEmail>>,
       <<"db", "postgres">>, <<"db", "sqlite">>, <<"db", "dynamodb">> >>

\* the tools that callers register: another object of each default class
\* and a tool of their own, for a known and for an unknown capability
RegistrableTools ==
    {BaseTool(DefaultTools[i][1], DefaultTools[i][2], 1) : i \in 1..Len(DefaultTools)}
        \cup {BaseTool("ocr", "custom_tool", 1),
              BaseTool("unknown_capability", "custom_tool", 1)}

\* ToolRegistry(): dicts in insertion order.  _tools[capability] is the
\* sequence of its values in key order (a capability without a key and one
\* with an empty dict both read as the empty pool).
NoRegistry ==
    [ tools              |-> [c \in Capabilities |-> <<>>],
      registration_order |-> [c \in Capabilities |-> <<>>],
      initialized        |-> FALSE ]

\* list(d.keys()) of a pool
Names(pool) == [i \in 1..Len(pool) |-> pool[i].name]

\* list.remove(x): the first occurrence goes
Remove(seq, x) ==
    LET i == CHOOSE k \in 1..Len(seq) : seq[k] = x /\ \A j \in 1..(k - 1) : seq[j] # x
    IN SubSeq(seq, 1, i - 1) \o SubSeq(seq, i + 1, Len(seq))

\* the registry after register(tool): an existing key keeps its place and
\* gets the new value, a new key goes last
register_tool_append_always(reg, tool) ==
    LET capability == tool.capability
        name       == tool.name
        pool       == reg.tools[capability]
    IN [reg EXCEPT
          !.tools[capability] =
              IF name \in Range(Names(pool))
              THEN [i \in 1..Len(pool) |-> IF pool[i].name = name THEN tool ELSE pool[i]]
              ELSE Append(pool, tool),
          !.registration_order[capability] = Append(@, name)]

register_tool(reg, tool) ==
    LET capability == tool.capability
        name       == tool.name
        pool       == reg.tools[capability]
    IN [reg EXCEPT
          !.tools[capability] =
              IF name \in Range(Names(pool))
              THEN [i \in 1..Len(pool) |-> IF pool[i].name = name THEN tool ELSE pool[i]]
              ELSE Append(pool, tool),
          !.registration_order[capability] =
              IF name \notin Range(@) THEN Append(@, name) ELSE @]

\* the registry after unregister(capability, name) found the tool
unregister_tool(reg, capability, name) ==
    [reg EXCEPT
       !.tools[capability] = SelectSeq(@, LAMBDA tool : tool.name # name),
       !.registration_order[capability] =
           IF name \in Range(@) THEN Remove(@, name) ELSE @]

get_tool(reg, capability, name) ==
    LET pool == reg.tools[capability]
    IN IF name \in Range(Names(pool))
       THEN pool[CHOOSE i \in 1..Len(pool) : pool[i].name = name]
       ELSE NONE

list_tools(reg, capability) == Names(reg.tools[capability])

get_default_tool(reg, capability) ==
    LET order == reg.registration_order[capability]
    IN IF order # <<>> THEN order[1] ELSE NONE

\* the _register_*_tools methods: register(Class()) for each default class
RECURSIVE register_all(_, _)
register_all(reg, classes) ==
    IF classes = <<>> THEN reg
    ELSE register_all(register_tool(reg, BaseTool(Head(classes)[1], Head(classes)[2], 0)),
                      Tail(classes))

register(tool) ==
    /\ nops.registry < MaxRegistryOps
    /\ registry' = register_tool(registry, tool)
    /\ ret' = [ op |-> "register", tool |-> tool ]
    /\ Count("registry")
    /\ UNCHANGED <<settings, selection_log, execution_count, call_log>>
    /\ StoreAside

unregister(capability, name) ==
    /\ nops.registry < MaxRegistryOps
    /\ IF name \in Range(Names(registry.tools[capability]))
       THEN /\ registry' = unregister_tool(registry, capability, name)
            /\ ret' = [ op |-> "unregister", capability |-> capability, name |-> name,
                        removed |-> TRUE ]
       ELSE /\ registry' = registry
            /\ ret' = [ op |-> "unregister", capability |-> capability, name |-> name,
                        removed |-> FALSE ]
    /\ Count("registry")
    /\ UNCHANGED <<settings, selection_log, execution_count, call_log>>
    /\ StoreAside

initialize_default_tools ==
    /\ nops.registry < MaxRegistryOps
    /\ registry' = IF registry.initialized THEN registry
                   ELSE [register_all(registry, DefaultTools) EXCEPT !.initialized = TRUE]
    /\ ret' = [ op |-> "initialize_default_tools" ]
    /\ Count("registry")
    /\ UNCHANGED <<settings, selection_log, execution_count, call_log>>
    /\ StoreAside

clear ==
    /\ nops.registry < MaxRegistryOps
    /\ registry' = NoRegistry
    /\ ret' = [ op |-> "clear" ]
    /\ Count("registry")
    /\ UNCHANGED <<settings, selection_log, execution_count, call_log>>
    /\ StoreAside

\* ================================================================= picker
UPPERCASE == "ABCDEFGHIJKLMNOPQRSTUVWXYZ"
LOWERCASE == "abcdefghijklmnopqrstuvwxyz"

\* str.lower()
RECURSIVE lower(_)
lower(str) ==
    IF str = "" THEN ""
    ELSE LET c == SubSeq(str, 1, 1)
             l == IF \E i \in 1..Len(UPPERCASE) : SubSeq(UPPERCASE, i, i) = c
                  THEN LET i == CHOOSE k \in 1..Len(UPPERCASE) : SubSeq(UPPERCASE, k, k) = c
                       IN SubSeq(LOWERCASE, i, i)
                  ELSE c
         IN l \o lower(SubSeq(str, 2, Len(str)))

\* `sub in str` on two strings
Contains(sub, str) ==
    \E i \in 1..(Len(str) - Len(sub) + 1) : SubSeq(str, i, i + Len(sub) - 1) = sub

\* `name in available` on a list
In(name, available) == name \in Range(available)

\* available[0] if available else None
First(available) == IF available # <<>> THEN available[1] ELSE NONE

is_development == lower(settings.app_env) = "development"

is_production == lower(settings.app_env) = "production"

_select_ocr_textract_first(context, available) ==
    LET document_type == lower(Get(context, "document_type", ""))
        quality       == Get(context, "quality", "standard")
        has_tables    == Get(context, "has_tables", FALSE)
    IN IF Get(context, "page_count", 1) > 5 /\ In("aws_textract", available)
       THEN "aws_textract"
       ELSE IF (quality = "high" \/ has_tables) /\ In("google_vision", available)
       THEN "google_vision"
       ELSE IF (quality = "low" \/ Get(context, "cost_sensitive", FALSE))
               /\ In("tesseract", available)
       THEN "tesseract"
       ELSE IF document_type = "invoice" /\ In("google_vision", available)
       THEN "google_vision"
       ELSE First(available)

_select_ocr(context, available) ==
    LET document_type == lower(Get(context, "document_type", ""))
        quality       == Get(context, "quality", "standard")
        has_tables    == Get(context, "has_tables", FALSE)
    IN IF (quality = "high" \/ has_tables) /\ In("google_vision", available)
       THEN "google_vision"
       ELSE IF Get(context, "page_count", 1) > 5 /\ In("aws_textract", available)
       THEN "aws_textract"
       ELSE IF (quality = "low" \/ Get(context, "cost_sensitive", FALSE))
               /\ In("tesseract", available)
       THEN "tesseract"
       ELSE IF document_type = "invoice" /\ In("google_vision", available)
       THEN "google_vision"
       ELSE First(available)

_select_enrichment_unchecked(context, available) ==
    LET vendor_type     == lower(Get(context, "vendor_type", ""))
        enrichment_type == lower(Get(context, "enrichment_type", ""))
    IN IF Get(context, "is_known_vendor", FALSE) /\ In("vendor_db", available)
       THEN "vendor_db"
       ELSE IF vendor_type \in {"business", "b2b", "enterprise"} /\ In("clearbit", available)
       THEN "clearbit"
       ELSE IF enrichment_type \in {"contact", "person", "employee"}
               /\ In("people_data_labs", available)
       THEN "people_data_labs"
       ELSE "clearbit"

_select_enrichment(context, available) ==
    LET vendor_type     == lower(Get(context, "vendor_type", ""))
        enrichment_type == lower(Get(context, "enrichment_type", ""))
    IN IF Get(context, "is_known_vendor", FALSE) /\ In("vendor_db", available)
       THEN "vendor_db"
       ELSE IF vendor_type \in {"business", "b2b", "enterprise"} /\ In("clearbit", available)
       THEN "clearbit"
       ELSE IF enrichment_type \in {"contact", "person", "employee"}
               /\ In("people_data_labs", available)
       THEN "people_data_labs"
       ELSE IF In("clearbit", available)
       THEN "clearbit"
       ELSE First(available)

_select_erp(context, available) ==
    LET erp_system == lower(Get(context, "erp_system", ""))
    IN IF Contains("sap", erp_system) /\ In("sap_sandbox", available)
       THEN "sap_sandbox"
       ELSE IF Contains("netsuite", erp_system) /\ In("netsuite", available)
       THEN "netsuite"
       ELSE IF (is_development \/ Get(context, "use_mock", FALSE))
               /\ In("mock_erp", available)
       THEN "mock_erp"
       ELSE IF In("mock_erp", available) THEN "mock_erp"
       ELSE First(available)

_select_db(context, available) ==
    LET data_size == Get(context, "data_size", "small")
    IN IF (data_size = "large" \/ is_production) /\ In("postgres", available)
       THEN "postgres"
       ELSE IF Get(context, "serverless", FALSE) /\ In("dynamodb", available)
       THEN "dynamodb"
       ELSE IF is_development /\ In("sqlite", available)
       THEN "sqlite"
       ELSE IF In("sqlite", available) THEN "sqlite"
       ELSE First(available)

_select_email(context, available) ==
    LET volume     == Get(context, "volume", "low")
        email_type == Get(context, "email_type", "transactional")
    IN IF (volume = "high" \/ email_type = "transactional") /\ In("sendgrid", available)
       THEN "sendgrid"
       ELSE IF Get(context, "aws_environment", FALSE) /\ In("ses", available)
       THEN "ses"
       ELSE IF is_development /\ In("smtp", available)
       THEN "smtp"
       ELSE IF In("sendgrid", available) THEN "sendgrid"
       ELSE First(available)

_select_storage(context, available) ==
    LET file_size == Get(context, "size", "small")
    IN IF (file_size = "large" \/ is_production) /\ In("s3", available)
       THEN "s3"
       ELSE IF Get(context, "gcp_environment", FALSE) /\ In("gcs", available)
       THEN "gcs"
       ELSE IF is_development /\ In("local_fs", available)
       THEN "local_fs"
       ELSE IF In("local_fs", available) THEN "local_fs"
       ELSE First(available)

_rule_based_select(capability, context, available_tools) ==
    CASE capability = "ocr"           -> _select_ocr(context, available_tools)
      [] capability = "enrichment"    -> _select_enrichment(context, available_tools)
      [] capability = "erp_connector" -> _select_erp(context, available_tools)
      [] capability = "db"            -> _select_db(context, available_tools)
      [] capability = "email"         -> _select_email(context, available_tools)
      [] capability = "storage"       -> _select_storage(context, available_tools)
      [] OTHER                        -> First(available_tools)

\* what the model answers, stripped and lower-cased; NONE: the call raised
LlmAnswers == {NONE, "tesseract", "use tesseract", "textract", "", "no tool fits"}

\* the first tool of the pool that is part of the answer or has the answer
\* as a part
RECURSIVE PartialMatch(_, _)
PartialMatch(selected, available_tools) ==
    IF available_tools = <<>> THEN NONE
    ELSE IF Contains(Head(available_tools), selected)
            \/ Contains(selected, Head(available_tools))
    THEN Head(available_tools)
    ELSE PartialMatch(selected, Tail(available_tools))

_llm_select(capability, context, available_tools, answer) ==
    IF settings.anthropic_api_key = NONE THEN NONE
    ELSE IF answer = NONE THEN NONE
    ELSE IF In(answer, available_tools) THEN answer
    ELSE PartialMatch(answer, available_tools)

_get_default(capability) ==
    IF get_default_tool(registry, capability) # NONE
    THEN get_default_tool(registry, capability)
    ELSE IF capability \in DOMAIN DEFAULT_TOOL_SELECTIONS
    THEN DEFAULT_TOOL_SELECTIONS[capability] ELSE "mock"

\* the entry _log_selection appends (its timestamp aside)
_log_selection(capability, selected, context, available) ==
    [ capability       |-> capability,
      selected         |-> selected,
      context_keys     |-> DOMAIN context,
      available_tools  |-> available,
      selection_method |-> "rule_based" ]

\* the context {}
NoContext == [k \in {} |-> NONE]

\* the contexts of the selections a caller asks for
Contexts(capability) ==
    CASE capability = "ocr" ->
           { NoContext, [document_type |-> "invoice"], [document_type |-> "Invoice"],
             [document_type |-> "receipt"], [quality |-> "high"], [has_tables |-> TRUE],
             [page_count |-> 6], [page_count |-> 5], [quality |-> "low"],
             [cost_sensitive |-> TRUE],
             [quality |-> "high", page_count |-> 6],
             [quality |-> "low", page_count |-> 6],
             [quality |-> "low", document_type |-> "invoice"],
             [cost_sensitive |-> TRUE, has_tables |-> TRUE] }
      [] capability = "enrichment" ->
           { NoContext, [vendor_name |-> "Acme"], [is_known_vendor |-> TRUE],
             [vendor_type |-> "b2b"], [vendor_type |-> "consumer"],
             [enrichment_type |-> "person"],
             [is_known_vendor |-> TRUE, vendor_type |-> "business"],
             [vendor_type |-> "enterprise", enrichment_type |-> "contact"],
             [vendor_type |-> "consumer", enrichment_type |-> "employee"] }
      [] capability = "erp_connector" ->
           { NoContext, [operation |-> "write"], [erp_system |-> "sap"],
             [erp_system |-> "SAP S/4HANA"], [erp_system |-> "netsuite"],
             [erp_system |-> "sap and netsuite"], [erp_system |-> "oracle"],
             [use_mock |-> TRUE], [erp_system |-> "netsuite", use_mock |-> TRUE] }
      [] capability = "db" ->
           { NoContext, [operation |-> "write"], [data_size |-> "large"], [serverless |-> TRUE],
             [data_size |-> "large", serverless |-> TRUE] }
      [] capability = "email" ->
           { NoContext, [volume |-> "low"], [volume |-> "high"],
             [email_type |-> "marketing"],
             [email_type |-> "marketing", aws_environment |-> TRUE],
             [email_type |-> "marketing", volume |-> "high"],
             [aws_environment |-> TRUE] }
      [] capability = "storage" ->
           { NoContext, [size |-> "small"], [size |-> "large"], [gcp_environment |-> TRUE],
             [size |-> "large", gcp_environment |-> TRUE] }
      [] OTHER -> { NoContext }

\* select: an empty pool returns the default at once; otherwise the rules,
\* then the model (which answers something) when the rules gave nothing and
\* a key is set, then the default, and the selection is logged
select(capability, context) ==
    /\ nops.select < MaxSelections
    /\ LET available_tools == list_tools(registry, capability) IN
       IF available_tools = <<>>
       THEN /\ ret' = [ op |-> "select", capability |-> capability, context |-> context,
                        available_tools |-> available_tools,
                        selected |-> _get_default(capability) ]
            /\ UNCHANGED selection_log
       ELSE LET by_rule == _rule_based_select(capability, context, available_tools) IN
            \E answer \in (IF by_rule = NONE /\ settings.anthropic_api_key # NONE
                           THEN LlmAnswers ELSE {NONE}) :
            LET by_llm   == IF by_rule = NONE /\ settings.anthropic_api_key # NONE
                            THEN _llm_select(capability, context, available_tools, answer)
                            ELSE by_rule
                selected == IF by_llm = NONE THEN _get_default(capability) ELSE by_llm
            IN /\ selection_log' =
                     Append(selection_log,
                            _log_selection(capability, selected, context, available_tools))
               /\ ret' = [ op |-> "select", capability |-> capability, context |-> context,
                           available_tools |-> available_tools, selected |-> selected ]
    /\ Count("select")
    /\ UNCHANGED <<settings, registry, execution_count, call_log>>
    /\ StoreAside

clear_selection_log ==
    /\ selection_log # <<>>
    /\ selection_log' = <<>>
    /\ ret' = [ op |-> "clear_selection_log" ]
    /\ UNCHANGED <<settings, registry, execution_count, call_log, nops>>
    /\ StoreAside

\* ================================================================== tools
\* the tool objects that callers execute
ExecutableTools == RegistrableTools

\* what the provider's _execute does with the parameters: it returns data
\* (NONE) or raises an exception with this text
ProviderErrors == {NONE, "provider unavailable"}

\* BaseTool.execute: the ToolResult of one call of the provider
execute(tool, error) ==
    /\ nops.execute < MaxExecutions
    /\ IF error = NONE
       THEN /\ execution_count' = [execution_count EXCEPT ![tool] = @ + 1]
            /\ ret' = [ op |-> "execute", tool |-> tool, raised |-> error,
                        success |-> TRUE, tool_name |-> tool.name, error |-> NONE,
                        execution_count |-> execution_count[tool] + 1 ]
       ELSE /\ UNCHANGED execution_count
            /\ ret' = [ op |-> "execute", tool |-> tool, raised |-> error,
                        success |-> FALSE, tool_name |-> tool.name, error |-> error,
                        execution_count |-> NONE ]
    /\ Count("execute")
    /\ UNCHANGED <<settings, registry, selection_log, call_log>>
    /\ StoreAside

\* ================================================================= router
COMMON == "COMMON"
ATLAS == "ATLAS"

\* the keys of the handlers dict of each server
CommonAbilities ==
    {"validate_schema", "persist_raw_invoice", "parse_line_items", "normalize_vendor",
     "compute_flags", "compute_match_score", "save_checkpoint", "build_accounting_entries",
     "apply_approval_policy", "output_final_payload"}

AtlasAbilities ==
    {"ocr_extract", "enrich_vendor", "fetch_po", "fetch_grn", "fetch_history",
     "human_review_action", "post_to_erp", "schedule_payment", "notify_vendor",
     "notify_finance_team"}

MCP_ROUTING_TABLE ==
    [ validate_schema |-> COMMON, persist_raw_invoice |-> COMMON,
      parse_line_items |-> COMMON, normalize_vendor |-> COMMON, compute_flags |-> COMMON,
      compute_match_score |-> COMMON, save_checkpoint |-> COMMON,
      build_accounting_entries |-> COMMON, apply_approval_policy |-> COMMON,
      output_final_payload |-> COMMON,
      ocr_extract |-> ATLAS, enrich_vendor |-> ATLAS, fetch_po |-> ATLAS,
      fetch_grn |-> ATLAS, fetch_history |-> ATLAS, human_review_action |-> ATLAS,
      post_to_erp |-> ATLAS, schedule_payment |-> ATLAS, notify_vendor |-> ATLAS,
      notify_finance_team |-> ATLAS ]

\* the abilities callers ask for: those of the table and two it does not know
Abilities == DOMAIN MCP_ROUTING_TABLE \cup {"refund_payment", "unknown_ability"}

\* the parameter maps of the calls
Params == { NoContext, [invoice_id |-> "INV-1"] }

\* CommonServer.execute / AtlasServer.execute: the handler's map, which
\* here names the server that ran it, or the error map of a server that has
\* no handler for the ability
ServerExecute(server, ability, params) ==
    IF ability \in (IF server = COMMON THEN CommonAbilities ELSE AtlasAbilities)
    THEN [ handled_by |-> server ]
    ELSE [ handled_by |-> server, error |-> "Unknown ability: " \o ability ]

_get_server_always_common(ability) == COMMON

_get_server(ability) ==
    IF ability \in DOMAIN MCP_ROUTING_TABLE THEN MCP_ROUTING_TABLE[ability] ELSE COMMON

\* MCPRouter.call: the record is appended, then the ability is routed
mcp_call(ability, params) ==
    /\ nops.call < MaxCalls
    /\ LET server == _get_server(ability)
       IN /\ call_log' = Append(call_log, [ ability |-> ability, server |-> server,
                                            params_keys |-> DOMAIN params ])
          /\ ret' = [ op |-> "call", ability |-> ability,
                      result |-> IF server = COMMON
                                 THEN ServerExecute(COMMON, ability, params)
                                 ELSE ServerExecute(ATLAS, ability, params) ]
    /\ Count("call")
    /\ UNCHANGED <<settings, registry, selection_log, execution_count>>
    /\ StoreAside

clear_call_log ==
    /\ call_log # <<>>
    /\ call_log' = <<>>
    /\ ret' = [ op |-> "clear_call_log" ]
    /\ UNCHANGED <<settings, registry, selection_log, execution_count, nops>>
    /\ StoreAside

\* ========================================================= specifications
\* Settings(): app_env and anthropic_api_key, read from the environment
AppEnvs == {"development", "production", "staging"}
ApiKeys == {NONE, "sk-key"}

InitComponents(app_env, anthropic_api_key) ==
    /\ settings = [ app_env |-> app_env, anthropic_api_key |-> anthropic_api_key ]
    /\ registry = NoRegistry
    /\ selection_log = <<>>
    /\ execution_count = [tool \in ExecutableTools |-> 0]
    /\ call_log = <<>>
    /\ ret = NoValue
    /\ nops = NoOps

\* the process with the defaults of Settings
Init ==
    /\ InitStore
    /\ InitComponents("development", NONE)

Next ==
    \/ \E w \in Workflows, amount \in InvoiceAmounts : start_workflow(w, amount)
    \/ \E w \in Workflows, atlas \in AtlasResponses : execute_workflow(w, atlas)
    \/ \E w \in Workflows, atlas \in AtlasResponses, bad \in RaisingStages :
          execute_workflow_error(w, atlas, bad)
    \/ \E c \in CheckpointIds, w \in Workflows : insert_checkpoint(c, w)
    \/ \E c \in CheckpointIds, x \in HumanDecisionType : process_decision_select(c, x)
    \/ \E call \in BagToSet(calls) : process_decision_commit(call)
    \/ \E call \in BagToSet(calls) : process_decision_reject(call)
    \/ \E call \in BagToSet(calls) : resume_workflow_load(call)
    \/ \E call \in BagToSet(calls), atlas \in AtlasResponses : resume_workflow_stream(call, atlas)
    \/ \E call \in BagToSet(calls), atlas \in AtlasResponses, bad \in RaisingStages :
          resume_workflow_error(call, atlas, bad)
    \/ \E w \in Workflows : cancel_workflow(w)
    \/ \E older \in SUBSET CheckpointIds, hours \in ExpireHours :
          expire_stale_reviews(older, hours)
    \/ \E w, w2 \in Workflows : retry_workflow(w, w2)

Spec == Init /\ [][Next]_vars

NextBigtool ==
    \/ \E tool \in RegistrableTools : register(tool)
    \/ \E tool \in RegistrableTools : unregister(tool.capability, tool.name)
    \/ initialize_default_tools
    \/ clear
    \/ \E capability \in Capabilities :
          \E context \in Contexts(capability) : select(capability, context)
    \/ clear_selection_log

\* the registry and the picker of a process, for any settings
InitBigtool ==
    /\ InitStore
    /\ \E app_env \in AppEnvs, anthropic_api_key \in ApiKeys :
          InitComponents(app_env, anthropic_api_key)

SpecBigtool == InitBigtool /\ [][NextBigtool]_vars

NextTool == \E tool \in ExecutableTools, error \in ProviderErrors : execute(tool, error)

SpecTool == Init /\ [][NextTool]_vars

NextRouter ==
    \/ \E ability \in Abilities, params \in Params : mcp_call(ability, params)
    \/ clear_call_log

SpecRouter == Init /\ [][NextRouter]_vars



\* ------------------------------------------------------- stages on their own
\* A stage is a function of the state it is handed: the stages, the abilities
\* they call and the graph from a given stage on, applied to given states.
\* amounts of invoices, lists of purchase-order amounts, tolerances (per
\* cent), risk scores (tenths), decisions and statuses a state may hold
StageAmounts == {-100, 0, 5000, 9500, 10000, 10001, 10100, 10500, 60000}

PurchaseOrderLists ==
    { <<>>, <<0>>, <<5000>>, <<10000>>, <<20000>>, <<5000, 5000>>, <<5000, 15000>>,
      <<-5000>>, <<5000, -5000>> }

Tolerances == {1, 5, 10}

RiskScores == {0, 2, 4, 5, 7, 10}

StageDecisions == HumanDecisionType \cup {NONE, "accept"}

\* the state with one more key
StateWith(s, key, value) ==
    [f \in DOMAIN s \cup {key} |-> IF f = key THEN value ELSE s[f]]

\* states as a stage may receive them: after RETRIEVE, at the interrupt
\* with the decision put in by aupdate_state, before RECONCILE and before
\* COMPLETE
StatesBefore(stage) ==
    CASE stage = MATCH_TWO_WAY ->
           { [InvoiceState(amount) EXCEPT !.validated = TRUE,
                                          !.po_total = Sum(purchase_orders),
                                          !.pos_count = Len(purchase_orders),
                                          !.current_stage = RETRIEVE] :
               amount \in StageAmounts, purchase_orders \in PurchaseOrderLists }
      [] stage = HITL_DECISION ->
           { [InvoiceState(amount) EXCEPT !.validated = TRUE,
                                          !.match_result = "FAILED",
                                          !.checkpoint_id = 1,
                                          !.status = "PAUSED",
                                          !.human_decision = decision,
                                          !.current_stage = CHECKPOINT_HITL] :
               amount \in StageAmounts, decision \in StageDecisions }
      [] stage = RECONCILE ->
           { [InvoiceState(amount) EXCEPT !.validated = TRUE,
                                          !.match_result = "MATCHED",
                                          !.current_stage = MATCH_TWO_WAY] :
               amount \in StageAmounts }
      [] stage = COMPLETE ->
           { [InvoiceState(10000) EXCEPT !.validated = TRUE,
                                         !.status = status,
                                         !.human_decision = decision,
                                         !.checkpoint_id = IF decision = NONE THEN 0 ELSE 1,
                                         !.current_stage = current] :
               status \in WorkflowStatus, decision \in HumanDecisionType \cup {NONE},
               current \in {NOTIFY, HITL_DECISION} }
      [] OTHER -> {}

\* a stage keeps nothing between two calls: a behaviour applies one stage
\* to one input
NotApplied == ret = NoValue

ComponentsAndStoreAside ==
    /\ UNCHANGED <<settings, registry, selection_log, execution_count, call_log, nops>>
    /\ StoreAside

\* approve_node on a state with the given amount and risk_score, and the
\* answer of the ability for the parameters the node sends
approve(amount, risk_score) ==
    /\ NotApplied
    /\ LET s == StateWith([InvoiceState(amount) EXCEPT !.current_stage = RECONCILE],
                          "risk_score", risk_score)
       IN ret' = [ op |-> "approve", amount |-> amount, risk_score |-> risk_score,
                   delta  |-> approve_node(s),
                   policy |-> _apply_approval_policy(
                                  [ amount |-> s.amount,
                                    risk_score |-> Get(s, "risk_score", 0) ]) ]
    /\ ComponentsAndStoreAside

\* match_node on a state with the given amount and purchase orders, the
\* answer of compute_match_score for them, and the score of the node's own
\* computation for the given tolerance
match(invoice_amount, purchase_orders, tolerance_pct) ==
    /\ NotApplied
    /\ LET s == [InvoiceState(invoice_amount) EXCEPT
                    !.po_total = Sum(purchase_orders),
                    !.pos_count = Len(purchase_orders),
                    !.current_stage = RETRIEVE]
       IN ret' = [ op |-> "match", invoice_amount |-> invoice_amount,
                   purchase_orders |-> purchase_orders,
                   tolerance_pct |-> tolerance_pct,
                   ability |-> _compute_match_score(
                                   [ invoice_amount  |-> invoice_amount,
                                     purchase_orders |-> purchase_orders,
                                     threshold       |-> match_threshold_pct,
                                     tolerance_pct   |-> tolerance_pct ]),
                   score |-> IF purchase_orders # <<>>
                             THEN calculate_match_score(invoice_amount,
                                                        Sum(purchase_orders), tolerance_pct)
                             ELSE <<0, 1>>,
                   delta |-> match_node(s) ]
    /\ ComponentsAndStoreAside

\* the graph entered at `stage` on state `s`, up to END or the interrupt, or
\* up to the stage `stop` (NONE: no stop), which shows the state between two
\* stages
invoke(stage, s, atlas, stop) ==
    /\ NotApplied
    /\ LET r == Pregel(s, stage, atlas, 1, <<>>, <<NONE, NONE>>, stop)
       IN ret' = [ op |-> "invoke", stage |-> stage, s |-> s, stop |-> stop,
                   first  |-> IF stop = stage THEN NONE ELSE Node(stage, s, atlas, 1),
                   values |-> r.s, next |-> r.next, trace |-> r.trace,
                   halted |-> r.halted ]
    /\ ComponentsAndStoreAside

NextStages ==
    \/ \E amount \in StageAmounts, risk_score \in RiskScores : approve(amount, risk_score)
    \/ \E invoice_amount \in StageAmounts, purchase_orders \in PurchaseOrderLists,
          tolerance_pct \in Tolerances : match(invoice_amount, purchase_orders, tolerance_pct)
    \/ \E stage \in {MATCH_TWO_WAY, HITL_DECISION, RECONCILE, COMPLETE} :
       \E s \in StatesBefore(stage), atlas \in AtlasResponses, stop \in StageID \cup {NONE} :
          invoke(stage, s, atlas, stop)

SpecStages == Init /\ [][NextStages]_vars

\* ------------------------------------------------- two workflows at once
\* Two workflows served by one process: one MemorySaver, one database.  The
\* operations are those that name one workflow (start, decide, cancel), in
\* any interleaving of their steps.
TwoWorkflows == {1, 2}

InitIsolation ==
    /\ InitStoreFor(TwoWorkflows)
    /\ InitComponents("development", NONE)

NextIsolation ==
    \/ \E w \in TwoWorkflows, amount \in InvoiceAmounts : start_workflow(w, amount)
    \/ \E w \in TwoWorkflows, atlas \in AtlasResponses : execute_workflow(w, atlas)
    \/ \E c \in CheckpointIds, w \in TwoWorkflows : insert_checkpoint(c, w)
    \/ \E c \in CheckpointIds, x \in HumanDecisionType : process_decision_select(c, x)
    \/ \E frame \in BagToSet(calls) : process_decision_commit(frame)
    \/ \E frame \in BagToSet(calls) : process_decision_reject(frame)
    \/ \E frame \in BagToSet(calls) : resume_workflow_load(frame)
    \/ \E frame \in BagToSet(calls), atlas \in AtlasResponses :
          resume_workflow_stream(frame, atlas)
    \/ \E w \in TwoWorkflows : cancel_workflow(w)

SpecIsolation == InitIsolation /\ [][NextIsolation]_vars

\* =================================================================== claims
TerminalStatus == {"COMPLETED", "MANUAL_HANDOFF", "FAILED"}

PostHitlStages == {RECONCILE, APPROVE, POSTING, NOTIFY}

\* the graph as the specification draws it: b may follow a in a run whose
\* state is s
SpecEdge(a, b, s) ==
    \/ <<a, b>> \in { <<INTAKE, UNDERSTAND>>, <<UNDERSTAND, PREPARE>>, <<PREPARE, RETRIEVE>>,
                      <<RETRIEVE, MATCH_TWO_WAY>>, <<CHECKPOINT_HITL, HITL_DECISION>>,
                      <<RECONCILE, APPROVE>>, <<APPROVE, POSTING>>, <<POSTING, NOTIFY>>,
                      <<NOTIFY, COMPLETE>>, <<COMPLETE, END>> }
    \/ a = MATCH_TWO_WAY /\ b = RECONCILE /\ s.match_result = "MATCHED"
    \/ a = MATCH_TWO_WAY /\ b = CHECKPOINT_HITL /\ s.match_result = "FAILED"
    \/ a = HITL_DECISION /\ b = RECONCILE /\ s.human_decision = "ACCEPT"
    \/ a = HITL_DECISION /\ b = COMPLETE /\ s.human_decision = "REJECT"

\* the stages executed so far, followed by the stage chosen next
FollowsEdges(trace, nxt, s) ==
    /\ \A i \in 1..(Len(trace) - 1) : SpecEdge(trace[i], trace[i + 1], s)
    /\ trace # <<>> => SpecEdge(trace[Len(trace)], nxt, s)

\* stages reachable from a in the graph, a included
Successors(a) ==
    CASE a = INTAKE          -> {UNDERSTAND}
      [] a = UNDERSTAND      -> {PREPARE}
      [] a = PREPARE         -> {RETRIEVE}
      [] a = RETRIEVE        -> {MATCH_TWO_WAY}
      [] a = MATCH_TWO_WAY   -> {RECONCILE, CHECKPOINT_HITL}
      [] a = CHECKPOINT_HITL -> {HITL_DECISION}
      [] a = HITL_DECISION   -> {RECONCILE, COMPLETE}
      [] a = RECONCILE       -> {APPROVE}
      [] a = APPROVE         -> {POSTING}
      [] a = POSTING         -> {NOTIFY}
      [] a = NOTIFY          -> {COMPLETE}
      [] OTHER               -> {}

RECURSIVE ReachableIn(_, _)
ReachableIn(S, n) ==
    IF n = 0 THEN S
    ELSE ReachableIn(S \cup UNION {Successors(a) : a \in S}, n - 1)

Reachable(a, b) == b \in ReachableIn({a}, Cardinality(StageID))

\* ---- C1
\* C1: HITL_DECISION never executes before a decision was recorded for the
\* workflow: the run that Start drives never executes it, a run that has
\* executed CHECKPOINT_HITL halts right after it, a resumed run executes it
\* only for a resolved checkpoint, and when the halted run returns the row
\* is PAUSED at CHECKPOINT_HITL.
C1_StartHaltsBeforeDecision ==
    /\ [](\A w \in Workflows :
            /\ HITL_DECISION \notin Range(run[w].trace)
            /\ CHECKPOINT_HITL \in Range(run[w].trace) =>
                 /\ run[w].trace[Len(run[w].trace)] = CHECKPOINT_HITL
                 /\ run[w].pc = "returned")
    /\ [](HITL_DECISION \in Range(resp.call.trace) =>
            cps[resp.call.checkpoint_id].is_resolved)
    /\ [][\A w \in Workflows :
            (run[w].pc = "running" /\ run'[w].pc = "returned"
               /\ CHECKPOINT_HITL \in Range(run'[w].trace)) =>
                 (wf'[w].status = "PAUSED" /\ wf'[w].current_stage = CHECKPOINT_HITL)]_vars

C1_Witness ==
    \E w \in Workflows :
        /\ run[w].pc = "returned"
        /\ CHECKPOINT_HITL \in Range(run[w].trace)
        /\ wf[w].status = "PAUSED"
        /\ wf[w].current_stage = CHECKPOINT_HITL

\* ---- C2
\* C2: in every run the executed stages, and the stage chosen next, follow
\* the edges of the fixed graph (MATCH_TWO_WAY to RECONCILE on MATCHED and to
\* CHECKPOINT_HITL on FAILED, HITL_DECISION to RECONCILE on ACCEPT and to
\* COMPLETE on REJECT); a run that Start drives begins at INTAKE and a
\* resumed run begins at a successor of the stage the thread executed last.
C2_RunsFollowGraph ==
    /\ \A w \in Workflows :
         /\ run[w].pc # "none" => FollowsEdges(run[w].trace, run[w].cur, run[w].s)
         /\ run[w].trace # <<>> => run[w].trace[1] = INTAKE
         /\ (run[w].pc = "running" /\ run[w].trace = <<>>) => run[w].cur = INTAKE
    /\ \A call \in BagToSet(calls) :
         call.pc = "streaming" => SpecEdge(call.s.current_stage, call.cur, call.s)
    /\ resp.result # NONE => FollowsEdges(resp.call.trace, resp.call.cur, resp.call.s)

C2_Witness ==
    /\ \E w \in Workflows : run[w].pc = "returned" /\ Len(run[w].trace) = 6
    /\ resp.result = "OK" /\ Len(resp.call.trace) = 6

\* ---- C3
\* C3: a successful ACCEPT decision taken for a workflow that was PAUSED
\* resumes at HITL_DECISION, runs RECONCILE, APPROVE, POSTING, NOTIFY and
\* COMPLETE in that order, and leaves the row COMPLETED at COMPLETE.
C3_AcceptRunsToCompleted ==
    (resp.result = "OK" /\ resp.call.decision = "ACCEPT" /\ resp.call.seen_status = "PAUSED") =>
        /\ resp.call.trace = <<HITL_DECISION, RECONCILE, APPROVE, POSTING, NOTIFY, COMPLETE>>
        /\ wf[resp.call.workflow].status = "COMPLETED"
        /\ wf[resp.call.workflow].current_stage = COMPLETE

\* ---- C4
\* C4: once a REJECT decision taken for a PAUSED workflow has succeeded, the
\* row is MANUAL_HANDOFF at COMPLETE and stays so, none of RECONCILE,
\* APPROVE, POSTING, NOTIFY executes for the workflow, and its state has
\* neither posted nor notified parties.
C4_RejectEndsInHandoff ==
    \A w \in Workflows :
        handoff[w] =>
            /\ wf[w].status = "MANUAL_HANDOFF"
            /\ wf[w].current_stage = COMPLETE
            /\ ~thr[w].values.posted
            /\ ~thr[w].values.notified
            /\ resp.call.workflow = w => Range(resp.call.trace) \cap PostHitlStages = {}

\* ---- C5
\* C5: once the status of a workflow is COMPLETED, MANUAL_HANDOFF or FAILED,
\* no step changes it.
C5_TerminalStatusIsFinal ==
    [][\A w \in Workflows :
         wf[w].status \in TerminalStatus => wf'[w].status = wf[w].status]_vars

\* ---- C6
\* C6: every value the row's current_stage takes is reachable in the graph
\* from the value it had before: current_stage never moves backward.
C6_StageNeverMovesBack ==
    [][\A w \in Workflows :
         wf[w].current_stage # NONE =>
             Reachable(wf[w].current_stage, wf'[w].current_stage)]_vars

\* ---- C7
\* C7: in a run whose match result is MATCHED neither CHECKPOINT_HITL nor
\* HITL_DECISION executes, the state carries no checkpoint_id, the store
\* holds no checkpoint or review row of the workflow, no decision is in
\* progress for it, and the row was never PAUSED.
C7_MatchedNeverPauses ==
    \A w \in Workflows :
        run[w].s.match_result = "MATCHED" =>
            /\ CHECKPOINT_HITL \notin Range(run[w].trace)
            /\ HITL_DECISION \notin Range(run[w].trace)
            /\ run[w].s.checkpoint_id = 0
            /\ thr[w].values.checkpoint_id = 0
            /\ wf[w].state_data.checkpoint_id = 0
            /\ \A c \in CheckpointIds : cps[c].exists => cps[c].workflow # w
            /\ \A call \in BagToSet(calls) : call.workflow # w
            /\ wf[w].status # "PAUSED"
            /\ ~wasPaused[w]

C7_Witness ==
    \E w \in Workflows :
        /\ run[w].pc = "returned"
        /\ run[w].s.match_result = "MATCHED"
        /\ Len(run[w].trace) = 10
        /\ wf[w].status = "COMPLETED"

\* ---- C8
\* C8: in a run whose match result is FAILED, once CHECKPOINT_HITL has
\* executed the row was seen PAUSED and, as long as no review of the
\* workflow was decided or expired, the store holds a PENDING review for
\* the checkpoint the stage named.
C8_FailedMatchEnqueuesReview ==
    \A w \in Workflows :
        (run[w].s.match_result = "FAILED" /\ CHECKPOINT_HITL \in Range(run[w].trace)) =>
            /\ wasPaused[w]
            /\ (\A c \in CheckpointIds :
                    (cps[c].exists /\ cps[c].workflow = w) => cps[c].review = "PENDING") =>
                 \E c \in CheckpointIds :
                     /\ c = run[w].s.checkpoint_id
                     /\ cps[c].exists
                     /\ cps[c].workflow = w
                     /\ cps[c].review = "PENDING"

\* ---- C9
\* C9: whenever a row is PAUSED, the checkpoint_id of its state names a
\* stored, unresolved checkpoint of that workflow.
C9_PausedHasStoredCheckpoint ==
    \A w \in Workflows :
        wf[w].status = "PAUSED" =>
            \E c \in CheckpointIds :
                /\ c = wf[w].state_data.checkpoint_id
                /\ cps[c].exists
                /\ cps[c].workflow = w
                /\ ~cps[c].is_resolved

\* ---- C10
\* C10: every workflow has at most one unresolved checkpoint in the store.
C10_OneUnresolvedCheckpoint ==
    \A w \in Workflows :
        Cardinality({c \in CheckpointIds :
                        cps[c].exists /\ cps[c].workflow = w /\ ~cps[c].is_resolved}) <= 1

C12_ResolveIsAtomic ==
    [][\A c \in CheckpointIds :
         LET w == cps[c].workflow
             resolves == ~cps[c].is_resolved /\ cps'[c].is_resolved
         IN /\ resolves =>
                 /\ cps'[c].resolution \in HumanDecisionType
                 /\ cps'[c].review = "REVIEWED"
                 /\ wf'[w].state_data.human_decision = cps'[c].resolution
                 /\ wf'[w].current_stage = HITL_DECISION
                 /\ audit'[w].human_decision = audit[w].human_decision + 1
            /\ (cps[c].review # "REVIEWED" /\ cps'[c].review = "REVIEWED") => resolves]_vars

\* ---- C13
\* C13: of the decisions processed for one checkpoint exactly one succeeds:
\* a workflow has no more human_decision audit rows than resolved
\* checkpoints, and at no time are two calls for the same checkpoint past
\* the commit of their decision, so the workflow is resumed at most once.
C13_OneDecisionPerCheckpoint ==
    /\ \A w \in Workflows :
         audit[w].human_decision <=
            Cardinality({c \in CheckpointIds :
                            cps[c].exists /\ cps[c].workflow = w /\ cps[c].is_resolved})
    /\ \A f, g \in BagToSet(calls) :
         (/\ f.checkpoint_id = g.checkpoint_id
          /\ f.pc \in {"resuming", "streaming", "rejected"}
          /\ g.pc \in {"resuming", "streaming", "rejected"}) =>
              (f = g /\ CopiesIn(f, calls) = 1)

\* ---- C14
\* C14: a review leaves PENDING only to REVIEWED or to EXPIRED and, once it
\* is REVIEWED or EXPIRED, no step changes its status.
C14_ReviewLeavesPendingOnce ==
    [][\A c \in CheckpointIds :
         /\ (cps[c].review = "PENDING" /\ cps'[c].review # "PENDING") =>
                cps'[c].review \in {"REVIEWED", "EXPIRED"}
         /\ cps[c].review \in {"REVIEWED", "EXPIRED"} =>
                cps'[c].review = cps[c].review]_vars

C16_CancelStopsTheRun ==
    [][\A w \in Workflows :
         (/\ wf[w].status = "FAILED"
          /\ wf[w].error_message = "Cancelled by user"
          /\ \/ run[w].pc = "running"
             \/ \E call \in BagToSet(calls) :
                   call.workflow = w /\ call.pc \in {"resuming", "streaming"}) =>
              /\ wf'[w].status = "FAILED"
              /\ wf'[w].error_message = "Cancelled by user"
              /\ Len(run'[w].trace) <= Len(run[w].trace) + 1
              /\ resp'.call.workflow = w => Len(resp'.call.trace) <= 1]_vars

C18_RetryCreatesNewWorkflow ==
    [][resp'.result \in {"Retried", "IntegrityError", "NotRetryable"} =>
         LET w == resp'.call.workflow
         IN IF wf[w].status = "FAILED"
            THEN /\ resp'.result = "Retried"
                 /\ wf'[w].retry_count = wf[w].retry_count + 1
                 /\ wf'[w].status = "FAILED"
                 /\ \E w2 \in Workflows :
                      /\ w2 # w
                      /\ wf[w2].status = NONE
                      /\ wf'[w2].status # NONE
                      /\ wf'[w2].invoice_id = wf[w].invoice_id
            ELSE /\ resp'.result = "NotRetryable"
                 /\ UNCHANGED <<wf, thr, run, cps, audit>>]_vars

\* ---- C19
\* C19: when a stage raises during a run, started or resumed, no later
\* stage executes and the row is FAILED with an error_message and with
\* current_stage equal to the stage that raised.
C19_RaiseMarksStage ==
    /\ [][\A w \in Workflows :
            (run[w].pc = "running" /\ run'[w].pc = "raised") =>
                /\ run'[w].cur \notin Range(run'[w].trace)
                /\ wf'[w].status = "FAILED"
                /\ wf'[w].error_message # NONE
                /\ wf'[w].current_stage = run'[w].cur]_vars
    /\ [](resp.result = "ResumeError" =>
            /\ resp.call.cur \notin Range(resp.call.trace)
            /\ wf[resp.call.workflow].status = "FAILED"
            /\ wf[resp.call.workflow].error_message # NONE
            /\ wf[resp.call.workflow].current_stage = resp.call.cur)

\* ---- C20
\* C20: when the resume that follows a decision fails at HITL_DECISION, the
\* decision is rolled back: the row is PAUSED and the checkpoint of the
\* decision is unresolved, with its review PENDING.
C20_FailedResumeRollsBack ==
    (resp.result = "ResumeError" /\ resp.call.cur = HITL_DECISION) =>
        /\ wf[resp.call.workflow].status = "PAUSED"
        /\ ~cps[resp.call.checkpoint_id].is_resolved
        /\ cps[resp.call.checkpoint_id].review = "PENDING"

\* ---- C21
\* C21: when post_to_erp returns a map with an error key, POSTING fails:
\* the row is FAILED at POSTING with the backend's error text as
\* error_message, posted is not true and NOTIFY has not executed.
C21_PostingErrorFailsTheRun ==
    /\ [][\A w \in Workflows :
            (run[w].pc = "running" /\ run'[w].pc # "running"
               /\ run'[w].post_error # NONE) =>
                /\ wf'[w].status = "FAILED"
                /\ wf'[w].current_stage = POSTING
                /\ wf'[w].error_message = run'[w].post_error
                /\ ~run'[w].s.posted
                /\ NOTIFY \notin Range(run'[w].trace)]_vars
    /\ [](resp.call.post_error # NONE =>
            /\ wf[resp.call.workflow].status = "FAILED"
            /\ wf[resp.call.workflow].current_stage = POSTING
            /\ wf[resp.call.workflow].error_message = resp.call.post_error
            /\ ~resp.call.s.posted
            /\ NOTIFY \notin Range(resp.call.trace))

\* ---- C22
\* the capability default of the configuration
ConfigDefault(capability) ==
    IF capability \in DOMAIN DEFAULT_TOOL_SELECTIONS
    THEN DEFAULT_TOOL_SELECTIONS[capability] ELSE "mock"

\* C22 as stated: whatever was registered and unregistered, for every
\* capability and context Select returns a name that is in the capability's
\* pool.
C22_SelectStaysInPool ==
    ret.op = "select" => In(ret.selected, list_tools(registry, ret.capability))

\* C22: whatever was registered and unregistered, for every capability with
\* a non-empty pool and every context Select returns a name that is in the
\* pool; for an empty pool it returns the capability default of the
\* configuration ("mock" for a capability the configuration does not know).
C22_SelectStaysInNonEmptyPool ==
    ret.op = "select" =>
        /\ ret.available_tools = list_tools(registry, ret.capability)
        /\ IF ret.available_tools # <<>>
           THEN In(ret.selected, list_tools(registry, ret.capability))
           ELSE ret.selected = ConfigDefault(ret.capability)

C22_Witness ==
    /\ ret.op = "select"
    /\ ret.capability = "enrichment"
    /\ list_tools(registry, "enrichment") = <<"vendor_db", "people_data_labs">>
    /\ ret.selected = "vendor_db"
    /\ ~registry.initialized

\* ---- C23
\* the rules of a capability in their order, <<guard, candidate>>, for a
\* context; strings are compared as the picker compares them, in lower case
Rules(capability, context) ==
    CASE capability = "ocr" ->
           << << Get(context, "quality", "standard") = "high"
                   \/ Get(context, "has_tables", FALSE), "google_vision" >>,
              << Get(context, "page_count", 1) > 5, "aws_textract" >>,
              << Get(context, "quality", "standard") = "low"
                   \/ Get(context, "cost_sensitive", FALSE), "tesseract" >>,
              << lower(Get(context, "document_type", "")) = "invoice", "google_vision" >> >>
      [] capability = "enrichment" ->
           << << Get(context, "is_known_vendor", FALSE), "vendor_db" >>,
              << lower(Get(context, "vendor_type", "")) \in {"business", "b2b", "enterprise"},
                 "clearbit" >>,
              << lower(Get(context, "enrichment_type", "")) \in {"contact", "person", "employee"},
                 "people_data_labs" >>,
              << TRUE, "clearbit" >> >>
      [] capability = "erp_connector" ->
           << << Contains("sap", lower(Get(context, "erp_system", ""))), "sap_sandbox" >>,
              << Contains("netsuite", lower(Get(context, "erp_system", ""))), "netsuite" >>,
              << settings.app_env = "development" \/ Get(context, "use_mock", FALSE),
                 "mock_erp" >> >>
      [] capability = "db" ->
           << << Get(context, "data_size", "small") = "large"
                   \/ settings.app_env = "production", "postgres" >>,
              << Get(context, "serverless", FALSE), "dynamodb" >>,
              << settings.app_env = "development", "sqlite" >> >>
      [] capability = "email" ->
           << << Get(context, "volume", "low") = "high"
                   \/ Get(context, "email_type", "transactional") = "transactional",
                 "sendgrid" >>,
              << Get(context, "aws_environment", FALSE), "ses" >>,
              << settings.app_env = "development", "smtp" >> >>
      [] capability = "storage" ->
           << << Get(context, "size", "small") = "large"
                   \/ settings.app_env = "production", "s3" >>,
              << Get(context, "gcp_environment", FALSE), "gcs" >>,
              << settings.app_env = "development", "local_fs" >> >>
      [] OTHER -> <<>>

\* the rules whose guard holds and whose candidate is in the pool
Applicable(capability, context, available) ==
    {i \in 1..Len(Rules(capability, context)) :
        /\ Rules(capability, context)[i][1]
        /\ In(Rules(capability, context)[i][2], available)}

C25_EverySelectIsLogged ==
    /\ [][nops'.select = nops.select + 1 =>
            /\ Len(selection_log') = Len(selection_log) + 1
            /\ LET entry == selection_log'[Len(selection_log')]
               IN /\ entry.capability = ret'.capability
                  /\ entry.selected = ret'.selected
                  /\ entry.available_tools = ret'.available_tools
                  /\ settings.anthropic_api_key = NONE =>
                        entry.selection_method =
                            IF Applicable(ret'.capability, ret'.context,
                                          ret'.available_tools) # {}
                            THEN "rule_based" ELSE "default"]_vars
    /\ [][ret'.op # "clear_selection_log" =>
            /\ Len(selection_log') >= Len(selection_log)
            /\ SubSeq(selection_log', 1, Len(selection_log)) = selection_log]_vars

\* ---- C26
\* C26: the router's call log holds one entry per Call, in call order;
\* the backend recorded for an ability of the routing table is the table's
\* backend for it, and it is the backend that handled the call; a call with
\* an ability no backend knows returns the map {error: "Unknown ability:
\* <name>"} and raises nothing.
C26_CallLogFollowsRoutingTable ==
    /\ [](\A i \in 1..Len(call_log) :
            call_log[i].ability \in DOMAIN MCP_ROUTING_TABLE =>
                call_log[i].server = MCP_ROUTING_TABLE[call_log[i].ability])
    /\ [][nops'.call = nops.call + 1 =>
            /\ ret'.op = "call"
            /\ Len(call_log') = Len(call_log) + 1
            /\ SubSeq(call_log', 1, Len(call_log)) = call_log
            /\ LET entry == call_log'[Len(call_log')]
               IN /\ entry.ability = ret'.ability
                  /\ ret'.result.handled_by = entry.server
                  /\ IF ret'.ability \in DOMAIN MCP_ROUTING_TABLE
                     THEN "error" \notin DOMAIN ret'.result
                     ELSE ret'.result.error = "Unknown ability: " \o ret'.ability]_vars

C26_Witness ==
    /\ ret.op = "call"
    /\ Len(call_log) = 2
    /\ call_log[1].ability = "post_to_erp" /\ call_log[1].server = ATLAS
    /\ call_log[2].ability = "refund_payment"
    /\ ret.result.error = "Unknown ability: refund_payment"

\* ---- C27
\* the pools of a registry that hold no tool
EmptyRegistry(reg) ==
    \A capability \in Capabilities : list_tools(reg, capability) = <<>>

\* C27: in every capability the names of the pool are distinct and the
\* registration order holds exactly those names, once each; registering a
\* name that is already in the pool replaces the tool and leaves the pool's
\* size, the name's position and the default tool as they were; initializing
\* an empty registry gives each of the six capabilities exactly three tools,
\* and initializing an initialized registry changes nothing.
C27_RegistryKeepsPoolAndOrder ==
    /\ [](\A capability \in Capabilities :
            LET names == list_tools(registry, capability)
                order == Get(registry.registration_order, capability, <<>>)
            IN /\ \A i, j \in 1..Len(names) : names[i] = names[j] => i = j
               /\ \A i, j \in 1..Len(order) : order[i] = order[j] => i = j
               /\ Range(order) = Range(names))
    /\ [][(/\ nops'.registry = nops.registry + 1
           /\ ret'.op = "register"
           /\ In(ret'.tool.name, list_tools(registry, ret'.tool.capability))) =>
            LET capability == ret'.tool.capability IN
            /\ list_tools(registry', capability) = list_tools(registry, capability)
            /\ registry'.registration_order = registry.registration_order
            /\ get_default_tool(registry', capability) = get_default_tool(registry, capability)
            /\ get_tool(registry', capability, ret'.tool.name) = ret'.tool
            /\ \A other \in Capabilities \ {capability} :
                  Get(registry'.tools, other, <<>>) = Get(registry.tools, other, <<>>)]_vars
    /\ [][(/\ nops'.registry = nops.registry + 1
           /\ ret'.op = "initialize_default_tools") =>
            IF registry.initialized
            THEN registry' = registry
            ELSE EmptyRegistry(registry) =>
                    /\ \A capability \in BigtoolCapability :
                          Len(list_tools(registry', capability)) = 3
                    /\ \A capability \in Capabilities \ BigtoolCapability :
                          list_tools(registry', capability) = <<>>]_vars

\* a default tool replaced by a caller's tool of the same name
C27_Witness ==
    /\ ret.op = "register"
    /\ registry.initialized
    /\ ret.tool.capability = "email" /\ ret.tool.name = "ses"
    /\ list_tools(registry, "email") = <<"sendgrid", "ses", "smtp">>
    /\ get_tool(registry, "email", "ses") = ret.tool
    /\ get_default_tool(registry, "email") = "sendgrid"

\* ---- C28
\* C28: execute raises nothing: when the provider raises, it returns a
\* result with success false and the failure text as error; and every call
\* of execute, failed or not, adds exactly one to the tool's execution
\* counter.
C28_ExecuteCountsEveryCall ==
    [][nops'.execute = nops.execute + 1 =>
        /\ ret'.op = "execute"
        /\ ret'.raised # NONE => (~ret'.success /\ ret'.error = ret'.raised)
        /\ ret'.raised = NONE => ret'.success
        /\ execution_count'[ret'.tool] = execution_count[ret'.tool] + 1]_vars

\* ---- C29
\* the keys each stage is declared to write
STAGE_OUTPUT_SCHEMAS ==
    [ INTAKE          |-> {"raw_id", "ingest_ts", "validated"},
      UNDERSTAND      |-> {"parsed_invoice", "ocr_provider_used"},
      PREPARE         |-> {"vendor_profile", "normalized_invoice", "flags"},
      RETRIEVE        |-> {"matched_pos", "matched_grns", "history"},
      MATCH_TWO_WAY   |-> {"match_score", "match_result", "tolerance_pct", "match_evidence"},
      CHECKPOINT_HITL |-> {"checkpoint_id", "review_url", "paused_reason"},
      HITL_DECISION   |-> {"human_decision", "reviewer_id", "next_stage"},
      RECONCILE       |-> {"accounting_entries", "reconciliation_report"},
      APPROVE         |-> {"approval_status", "approver_id"},
      POSTING         |-> {"posted", "erp_txn_id", "scheduled_payment_id"},
      NOTIFY          |-> {"notify_status", "notified_parties"},
      COMPLETE        |-> {"final_payload", "audit_log", "status"} ]

\* the key of the program's state that a field of InvoiceState stands for
StateKey(field) ==
    CASE field \in {"po_total", "pos_count"}  -> "matched_pos"
      [] field \in {"score_num", "score_den"} -> "match_score"
      [] field = "notified"                   -> "notify_status"
      [] OTHER                                -> field

\* the deltas of a graph call keep to the declared keys and write no key
\* that an earlier stage of the call wrote
OwnedAndWrittenOnce(ws) ==
    \A i \in 1..Len(ws) :
        /\ {StateKey(f) : f \in ws[i].keys \ {"current_stage"}}
              \subseteq STAGE_OUTPUT_SCHEMAS[ws[i].stage]
        /\ \A j \in 1..(i - 1) :
              {StateKey(f) : f \in ws[i].keys} \cap {StateKey(f) : f \in ws[j].keys}
                  \subseteq {"current_stage"}

\* C29: in every run the delta that a stage returns holds only
\* current_stage and keys the stage is declared to own, and no stage writes
\* a key that an earlier stage wrote: such a delta is refused as an error
\* and never merged into the state.
C29_StagesWriteOnlyOwnedFields ==
    /\ \A w \in Workflows : OwnedAndWrittenOnce(run[w].writes)
    /\ OwnedAndWrittenOnce(resp.call.writes)

\* ---- C30
\* C30: state_data is written through after each stage: when a graph call
\* has ended, by completing, pausing or failing at a stage, state_data and
\* current_stage of the row are those of the runtime's merged state, so the
\* row shows the outputs of every stage that completed.
C30_StateDataIsWrittenThrough ==
    /\ \A w \in Workflows :
          run[w].pc \in {"returned", "raised"} =>
              /\ wf[w].state_data = run[w].s
              /\ wf[w].current_stage = run[w].s.current_stage
    /\ resp.result \in {"OK", "ResumeError"} =>
          /\ wf[resp.call.workflow].state_data = resp.call.s
          /\ wf[resp.call.workflow].current_stage = resp.call.s.current_stage

\* ---- C31
\* C31: for every invoice amount and risk_score the APPROVE stage gives
\* AUTO_APPROVED with approver SYSTEM exactly when amount <= 10000 and
\* risk_score < 0.5, and ESCALATED with approver finance_manager otherwise;
\* its outcome agrees with the answer of apply_approval_policy for the same
\* inputs.
C31_ApproveFollowsPolicy ==
    ret.op = "approve" =>
        LET auto == ret.amount <= 10000 /\ ret.risk_score < 5
        IN /\ ret.delta.approval_status = (IF auto THEN "AUTO_APPROVED" ELSE "ESCALATED")
           /\ ret.delta.approver_id = (IF auto THEN "SYSTEM" ELSE "finance_manager")
           /\ ret.policy.approved <=> ret.delta.approval_status = "AUTO_APPROVED"
           /\ ret.policy.approver = ret.delta.approver_id

\* ---- C32
RECURSIVE GCD(_, _)
GCD(a, b) == IF b = 0 THEN a ELSE GCD(b, a % b)

\* a fraction with a positive denominator in lowest terms
Lowest(p) ==
    LET g == GCD(Abs(p[1]), p[2]) IN <<p[1] \div g, p[2] \div g>>

\* two scores, given as fractions with a positive denominator, are equal
SameScore(p, q) == Lowest(p) = Lowest(q)

\* `score` is what the specified algorithm gives (purchase orders with a
\* total that is not negative)
IsSpecifiedScore(score, invoice_amount, purchase_orders, tolerance_pct) ==
    LET po_total == Sum(purchase_orders)
        diff     == Abs(invoice_amount - po_total)
    IN IF purchase_orders = <<>> THEN score[1] = 0
       ELSE IF po_total = 0 THEN (IF invoice_amount = 0 THEN score[1] = score[2]
                                                         ELSE score[1] = 0)
       ELSE IF diff * 100 <= tolerance_pct * po_total
       THEN SameScore(score, <<po_total * tolerance_pct * 10 - diff * 100,
                               po_total * tolerance_pct * 10>>)
       ELSE IF diff >= po_total THEN score[1] = 0
       ELSE SameScore(score, <<po_total - diff, po_total>>)

\* C32: for every invoice amount, list of purchase orders and tolerance the
\* score of the compute_match_score ability is the score that MATCH_TWO_WAY
\* stores, and both are the score of the specified algorithm: 1.0 or 0.0 for
\* a total of 0, as the invoice amount is 0 or not, and 0.0 for an empty
\* list.
C32_AbilityAndStageScoreAgree ==
    ret.op = "match" =>
        /\ SameScore(ret.ability.score, ret.score)
        /\ ret.tolerance_pct = two_way_tolerance_pct =>
              /\ SameScore(ret.score, <<ret.delta.score_num, ret.delta.score_den>>)
              /\ ret.ability.matched <=> ret.delta.match_result = "MATCHED"
        /\ Sum(ret.purchase_orders) >= 0 =>
              /\ IsSpecifiedScore(ret.score, ret.invoice_amount, ret.purchase_orders,
                                  ret.tolerance_pct)
              /\ IsSpecifiedScore(ret.ability.score, ret.invoice_amount,
                                  ret.purchase_orders, ret.tolerance_pct)

\* ---- C33
\* C33: whenever MATCH_TWO_WAY has executed, the match_score of the state
\* lies in [0, 1], for every invoice amount and every list of purchase
\* orders whose amounts are not negative (the backend's are 5000..20000).
C33_ScoreWithinUnitInterval ==
    (/\ ret.op = "invoke"
     /\ MATCH_TWO_WAY \in Range(ret.trace)
     /\ ret.s.po_total >= 0) =>
        /\ ret.values.score_den > 0
        /\ 0 <= ret.values.score_num
        /\ ret.values.score_num <= ret.values.score_den

\* the difference is six times the purchase order: the score is cut at 0
C33_Witness ==
    /\ ret.op = "invoke"
    /\ ret.stage = MATCH_TWO_WAY /\ ret.trace # <<>>
    /\ ret.s.amount = 60000 /\ ret.s.po_total = 10000 /\ ret.s.pos_count = 1
    /\ ret.values.score_num = 0

\* ---- C34
\* C34: when matched_pos is empty as MATCH_TWO_WAY runs, match_score is
\* 0.0 and match_result FAILED, the stage that runs next is CHECKPOINT_HITL,
\* checkpoint_id is set and the workflow pauses before HITL_DECISION.
C34_NoPurchaseOrdersPauses ==
    (/\ ret.op = "invoke"
     /\ ret.stage = MATCH_TWO_WAY
     /\ ret.s.pos_count = 0
     /\ ret.stop \notin {MATCH_TWO_WAY, CHECKPOINT_HITL}) =>
        /\ ret.first.score_num = 0
        /\ ret.first.match_result = "FAILED"
        /\ ret.trace = <<MATCH_TWO_WAY, CHECKPOINT_HITL>>
        /\ ret.values.checkpoint_id # 0
        /\ ret.values.status = "PAUSED"
        /\ ret.next = HITL_DECISION

C34_Witness ==
    /\ ret.op = "invoke"
    /\ ret.stage = MATCH_TWO_WAY /\ ret.stop = NONE
    /\ ret.s.pos_count = 0 /\ ret.s.amount = 0
    /\ ret.trace = <<MATCH_TWO_WAY, CHECKPOINT_HITL>>
    /\ ret.halted

\* ---- C35
\* C35: with the threshold 0.90, when the difference in per cent is the
\* tolerance exactly, the score is exactly 0.9 and the result MATCHED; when
\* the purchase-order total is the invoice amount, the score is 1.0 and the
\* result MATCHED.
C35_ScoreAtTheBoundaries ==
    (ret.op = "match" /\ ret.purchase_orders # <<>>) =>
        LET po_total == Sum(ret.purchase_orders)
            diff     == Abs(ret.invoice_amount - po_total)
            stored   == <<ret.delta.score_num, ret.delta.score_den>>
            default  == ret.tolerance_pct = two_way_tolerance_pct
        IN /\ (po_total > 0 /\ diff * 100 = ret.tolerance_pct * po_total) =>
                 /\ SameScore(ret.score, <<9, 10>>)
                 /\ default => (SameScore(stored, <<9, 10>>)
                                  /\ ret.delta.match_result = "MATCHED")
           /\ po_total = ret.invoice_amount =>
                 /\ SameScore(ret.score, <<1, 1>>)
                 /\ SameScore(stored, <<1, 1>>)
                 /\ ret.delta.match_result = "MATCHED"

\* 10500 against one purchase order of 10000 with the tolerance 5
C35_Witness ==
    /\ ret.op = "match"
    /\ ret.invoice_amount = 10500 /\ ret.purchase_orders = <<10000>>
    /\ ret.tolerance_pct = 5
    /\ ret.delta.score_num * 10 = ret.delta.score_den * 9
    /\ ret.delta.match_result = "MATCHED"

\* ---- C36
\* the sum of the amounts of the entries of one type
RECURSIVE Total(_, _)
Total(entries, type) ==
    IF entries = <<>> THEN 0
    ELSE (IF Head(entries).type = type THEN Head(entries).amount ELSE 0)
            + Total(Tail(entries), type)

\* C36: after RECONCILE has executed, in every later state the DEBIT
\* amounts of accounting_entries add up to the CREDIT amounts, for every
\* invoice amount.
C36_DebitsEqualCredits ==
    (ret.op = "invoke" /\ RECONCILE \in Range(ret.trace)) =>
        /\ ret.values.accounting_entries # <<>>
        /\ Total(ret.values.accounting_entries, "DEBIT")
              = Total(ret.values.accounting_entries, "CREDIT")
        /\ Total(ret.values.accounting_entries, "DEBIT") = ret.s.amount

\* an accepted invoice of 10500 that went on to COMPLETE
C36_Witness ==
    /\ ret.op = "invoke"
    /\ ret.stage = HITL_DECISION /\ ret.s.amount = 10500
    /\ ret.trace = <<HITL_DECISION, RECONCILE, APPROVE, POSTING, NOTIFY, COMPLETE>>
    /\ Total(ret.values.accounting_entries, "CREDIT") = 10500

C39_DecisionWriteAgreesWithEdge ==
    (ret.op = "invoke" /\ ret.stage = HITL_DECISION /\ ret.stop # HITL_DECISION) =>
        LET edge   == IF Len(ret.trace) >= 2 THEN ret.trace[2] ELSE ret.next
            accept == ret.s.human_decision = "ACCEPT"
        IN /\ ret.first.next_stage = (IF accept THEN RECONCILE ELSE COMPLETE)
           /\ ret.first.status = (IF accept THEN "RUNNING" ELSE "MANUAL_HANDOFF")
           /\ edge = ret.first.next_stage
           /\ decision_outcome(ret.s.human_decision)
                 = <<ret.first.next_stage, ret.first.status>>

\* no decision in the state
C39_Witness ==
    /\ ret.op = "invoke"
    /\ ret.stage = HITL_DECISION /\ ret.stop = NONE
    /\ ret.s.human_decision = NONE
    /\ ret.trace = <<HITL_DECISION, COMPLETE>>
    /\ ret.first.status = "MANUAL_HANDOFF"

\* ---- C38
\* C38: once a REJECT decision has been answered, the runtime has been
\* resumed as after an ACCEPT: it executed HITL_DECISION and then COMPLETE,
\* and the thread's final state holds human_decision = REJECT, next_stage =
\* COMPLETE, a final_payload and an audit_log.
C38_RejectResumesToComplete ==
    (resp.result = "OK" /\ resp.call.decision = "REJECT") =>
        LET w == resp.call.workflow IN
        /\ resp.call.trace = <<HITL_DECISION, COMPLETE>>
        /\ thr[w].next = END
        /\ thr[w].values.human_decision = "REJECT"
        /\ thr[w].values.next_stage = COMPLETE
        /\ thr[w].values.final_payload # NoPayload
        /\ thr[w].values.audit_log # <<>>

\* ---- C40
\* the results of the first graph call of workflow w for an invoice of the
\* given amount, one per answer of the backend
FirstCall(amount, w) ==
    { Pregel(InvoiceState(amount), entry_point, atlas, w, <<>>, <<NONE, NONE>>, NONE) :
        atlas \in AtlasResponses }

\* the results of resuming workflow w alone after an ACCEPT
Resumed(amount, w) ==
    LET paused == {r \in FirstCall(amount, w) : r.next = HITL_DECISION}
    IN { Pregel([r.s EXCEPT !.human_decision = "ACCEPT"], r.next, atlas, w,
                <<>>, <<NONE, NONE>>, NONE) : r \in paused, atlas \in AtlasResponses }

\* the values the thread of workflow w takes when w is the only workflow
AloneThreads(amount, w) ==
    LET paused == {r \in FirstCall(amount, w) : r.next = HITL_DECISION}
    IN {[values |-> InvoiceState(amount), next |-> entry_point]}
       \cup {[values |-> r.s, next |-> r.next] : r \in FirstCall(amount, w)}
       \cup {[values |-> [r.s EXCEPT !.human_decision = "ACCEPT"], next |-> r.next] :
               r \in paused}
       \cup {[values |-> r.s, next |-> r.next] : r \in Resumed(amount, w)}

\* the state_data the row of workflow w takes when w is the only workflow
AloneStateData(amount, w) ==
    {RawPayloadOnly(amount)} \cup {r.s : r \in FirstCall(amount, w)}

\* the thread and the state_data of workflow w are those of w running alone
OwnState(w) ==
    IF wf[w].status = NONE
    THEN thr[w] = NoThread
    ELSE /\ thr[w] \in AloneThreads(wf[w].state_data.amount, w)
         /\ wf[w].state_data \in AloneStateData(wf[w].state_data.amount, w)

\* a step leaves the row, the thread, the checkpoints and the reviews of
\* every workflow other than w as they are
OthersKept(w) ==
    \A v \in DOMAIN wf \ {w} :
        /\ wf'[v] = wf[v]
        /\ thr'[v] = thr[v]
        /\ \A c \in CheckpointIds :
              (cps[c].workflow = v \/ cps'[c].workflow = v) => cps'[c] = cps[c]

\* the step is a step of an operation on workflow w
OperationOn(w) ==
    \/ \E amount \in InvoiceAmounts : start_workflow(w, amount)
    \/ \E atlas \in AtlasResponses : execute_workflow(w, atlas)
    \/ \E c \in CheckpointIds, x \in HumanDecisionType :
          cps[c].workflow = w /\ process_decision_select(c, x)
    \/ \E frame \in BagToSet(calls) :
          /\ frame.workflow = w
          /\ \/ process_decision_commit(frame)
             \/ process_decision_reject(frame)
             \/ resume_workflow_load(frame)
             \/ \E atlas \in AtlasResponses : resume_workflow_stream(frame, atlas)
    \/ cancel_workflow(w)

\* C40: workflows are isolated.  Under any interleaving of the operations
\* on two workflows, a step of an operation on one workflow changes neither
\* the row (status, current_stage, state_data) nor the thread nor the
\* checkpoints and reviews of the other, and the state each workflow
\* reaches is a state it reaches when it runs alone.
C40_WorkflowsIsolated ==
    /\ [](\A w \in DOMAIN wf : OwnState(w))
    /\ [][\A w \in DOMAIN wf : OperationOn(w) => OthersKept(w)]_vars

\* a decision for the second workflow, which paused, is in flight; the
\* first, which paused too, has been accepted and resumed to the end
C40_Witness ==
    /\ DOMAIN wf = TwoWorkflows
    /\ resp.result = "OK" /\ resp.call.workflow = 1
    /\ thr[1].next = END /\ thr[1].values.human_decision = "ACCEPT"
    /\ thr[2].next = HITL_DECISION
    /\ \E frame \in BagToSet(calls) : frame.workflow = 2 /\ frame.pc = "resuming"

====
